---- MODULE Spec2Model ----
(***************************************************************************)
(* A model of the binary emitter of `water`: the LEB128 codec              *)
(* (src/src/leb128.rs), the opcode tables (src/src/opcode.rs) and the      *)
(* Emitter with its emit_element implementations (src/src/emitter.rs,      *)
(* src/src/emitter/*.rs).                                                  *)
(*                                                                         *)
(* Machine integers are bit vectors: a function from bit positions         *)
(* 0 .. w-1 (0 the least significant) to {0, 1}, in two's complement.      *)
(* Floating values are their IEEE 754 bit patterns.                        *)
(***************************************************************************)
EXTENDS Integers, Sequences, FiniteSets, TLC

VARIABLES
    writer,     \* Emitter.writer: [data, growable, room, writes]
    op,         \* the operation called last
    arg,        \* its argument
    ret,        \* what it returned: a Result, a byte, or a panic
    base        \* Len(writer.data) when the operation was called

vars == <<writer, op, arg, ret, base>>

(***************************************************************************)
(* Bounds of the model.                                                    *)
(***************************************************************************)
\* integers -MaxSmall .. MaxSmall are inputs, besides the boundary patterns
MaxSmall == 66
\* a fixed-size sink (Cursor<[u8; N]>) has N in 0 .. MaxRoom
MaxRoom == 2
\* a Program holds 0 .. MaxModules modules
MaxModules == 2
\* the writes a sink takes in a sequence of calls
MaxWrites == 4
\* the exhaustively enumerated texts have 0 .. MaxText characters
MaxText == 3
\* the texts put together from pieces have 0 .. MaxPieces pieces
MaxPieces == 5
\* a function has 0 .. MaxClauses parameters and locals, a folded
\* instruction 0 .. MaxClauses operands
MaxClauses == 2

(***************************************************************************)
(* Bit vectors.                                                            *)
(***************************************************************************)
I64_BITS == 64
I32_BITS == 32
U8_BITS == 8

Pow2(n) == 2 ^ n

\* bit i of the natural number n (n < 2^31)
NatBit(n, i) == IF i > 30 THEN 0 ELSE (n \div Pow2(i)) % 2

\* the w-bit two's complement pattern of the integer n, |n| < 2^31
IntBits(n, w) ==
    [i \in 0 .. w - 1 |->
        IF n >= 0 THEN NatBit(n, i) ELSE 1 - NatBit(-(n + 1), i)]

\* hi * 2^31 + lo as a w-bit pattern, 0 <= lo < 2^31
IntBitsWide(hi, lo, w) ==
    [i \in 0 .. w - 1 |->
        IF i <= 30 THEN NatBit(lo, i)
        ELSE IF hi >= 0 THEN NatBit(hi, i - 31) ELSE 1 - NatBit(-(hi + 1), i - 31)]

OneHot(k, w) == [i \in 0 .. w - 1 |-> IF i = k THEN 1 ELSE 0]
LowOnes(k, w) == [i \in 0 .. w - 1 |-> IF i < k THEN 1 ELSE 0]

BitNot(a) == [i \in DOMAIN a |-> 1 - a[i]]
BitAnd(a, b) == [i \in DOMAIN a |-> a[i] * b[i]]
BitOr(a, b) == [i \in DOMAIN a |-> IF a[i] + b[i] > 0 THEN 1 ELSE 0]

\* Sar with zeros shifted in, as on an unsigned value
Sar_Logical(a, n) ==
    [i \in 0 .. I64_BITS - 1 |->
        IF i + n <= I64_BITS - 1 THEN a[i + n] ELSE 0]

\* `value >> n` on an i64: the sign bit is shifted in
Sar(a, n) ==
    [i \in 0 .. I64_BITS - 1 |->
        IF i + n <= I64_BITS - 1 THEN a[i + n] ELSE a[I64_BITS - 1]]

\* Shr shifting one bit too many
Shr_OneMore(a, n) ==
    [i \in 0 .. I64_BITS - 1 |->
        IF i + n + 1 <= I64_BITS - 1 THEN a[i + n + 1] ELSE 0]

\* `value >> n` on a u64: zeros are shifted in
Shr(a, n) ==
    [i \in 0 .. I64_BITS - 1 |->
        IF i + n <= I64_BITS - 1 THEN a[i + n] ELSE 0]

IsZero(a) == \A i \in DOMAIN a : a[i] = 0
\* a test for -1 that never succeeds
IsMinusOne_Never(a) == FALSE

IsMinusOne(a) == \A i \in DOMAIN a : a[i] = 1

\* `x as u8`: the low eight bits, as a number
AsU8(a) ==
    a[0] + 2 * a[1] + 4 * a[2] + 8 * a[3]
    + 16 * a[4] + 32 * a[5] + 64 * a[6] + 128 * a[7]

\* `a | b` on two u8
U8Or(a, b) == AsU8(BitOr(IntBits(a, U8_BITS), IntBits(b, U8_BITS)))

\* I32AsI64 extending with ones
I32AsI64_OnesExtend(a) ==
    [i \in 0 .. I64_BITS - 1 |-> IF i < I32_BITS THEN a[i] ELSE 1]

\* I32AsI64 extending with zeros
I32AsI64_ZeroExtend(a) ==
    [i \in 0 .. I64_BITS - 1 |-> IF i <= I32_BITS - 1 THEN a[i] ELSE 0]

\* `int32 as i64`: sign extension
I32AsI64(a) ==
    [i \in 0 .. I64_BITS - 1 |->
        IF i <= I32_BITS - 1 THEN a[i] ELSE a[I32_BITS - 1]]

\* ToLeBytes with the most significant byte first
ToLeBytes_BigEndian(a, n) ==
    [k \in 1 .. n |-> AsU8([i \in 0 .. U8_BITS - 1 |-> a[U8_BITS * (n - k) + i]])]

\* to_le_bytes: byte k holds bits 8k .. 8k+7
ToLeBytes(a, n) ==
    [k \in 1 .. n |-> AsU8([i \in 0 .. U8_BITS - 1 |-> a[U8_BITS * (k - 1) + i]])]

(***************************************************************************)
(* Results.                                                                *)
(***************************************************************************)
Ok(n) == [tag |-> "Ok", n |-> n]
OkUnit == [tag |-> "OkUnit", n |-> 0]
Err == [tag |-> "Err", n |-> 0]
Byte(b) == [tag |-> "Byte", n |-> b]
Panic == [tag |-> "Panic", n |-> 0]
None == [tag |-> "None", n |-> 0]

(***************************************************************************)
(* The sink and the Emitter's primitive writes.                            *)
(***************************************************************************)
\* Vec<u8>: accepts every write.  writes counts the write_all calls the
\* sink received.
VecSink == [data |-> <<>>, growable |-> TRUE, room |-> 0, writes |-> 0]
\* Cursor<[u8; n]>: accepts n bytes
CursorSink(n) == [data |-> <<>>, growable |-> FALSE, room |-> n, writes |-> 0]

\* Write::write_all: on a full sink the bytes that fit are written
\* and the call fails
WriteAll(w, bytes) ==
    IF w.growable
    THEN [writer |-> [w EXCEPT !.data = @ \o bytes, !.writes = @ + 1],
          ok |-> TRUE]
    ELSE IF Len(bytes) <= w.room
    THEN [writer |-> [w EXCEPT !.data = @ \o bytes, !.room = @ - Len(bytes),
                               !.writes = @ + 1],
          ok |-> TRUE]
    ELSE [writer |-> [w EXCEPT !.data = @ \o SubSeq(bytes, 1, w.room),
                               !.room = 0, !.writes = @ + 1],
          ok |-> FALSE]

\* emit_bytes that writes from the start of the sink
emit_bytes_Rewound(w, bytes) ==
    LET r == WriteAll([w EXCEPT !.data = <<>>], bytes)
    IN  [writer |-> r.writer, ret |-> IF r.ok THEN OkUnit ELSE Err]

emit_bytes(w, bytes) ==
    LET r == WriteAll(w, bytes)
    IN  [writer |-> r.writer, ret |-> IF r.ok THEN OkUnit ELSE Err]

emit_byte(w, byte) ==
    LET r == emit_bytes(w, <<byte>>)
    IN  [writer |-> r.writer, ret |-> IF r.ret.tag = "OkUnit" THEN Ok(1) ELSE Err]

(***************************************************************************)
(* leb128.rs                                                               *)
(***************************************************************************)
\* CONTINUATION_BIT one bit too low
CONTINUATION_BIT_ShiftSix == 2 ^ 6

\* 1 << 7
CONTINUATION_BIT == 2 ^ 7

ContinuationBits == IntBits(CONTINUATION_BIT, I64_BITS)

RECURSIVE SignedLoop(_, _, _)
SignedLoop(w, value, bytes_written) ==
    LET bkp == value
        shifted == Sar(value, 6)
        is_done == IsZero(shifted) \/ IsMinusOne(shifted)
        byte == IF is_done
                THEN AsU8(BitAnd(bkp, BitNot(ContinuationBits)))
                ELSE AsU8(BitOr(bkp, ContinuationBits))
        e == emit_byte(w, byte)
    IN  IF e.ret.tag = "Err" THEN e
        ELSE IF is_done THEN [writer |-> e.writer, ret |-> Ok(bytes_written + 1)]
        ELSE SignedLoop(e.writer, Sar(shifted, 1), bytes_written + 1)

\* a first group that always has a group after it
emit_signed_leb128_Padded(w, value) ==
    SignedLoop(emit_byte(w, AsU8(BitOr(value, ContinuationBits))).writer,
               Sar(value, 7), 1)

emit_signed_leb128(w, value) == SignedLoop(w, value, 0)

\* low_bits that keeps six bits
low_bits_SixBits(value) == AsU8(BitAnd(value, IntBits(63, I64_BITS)))

low_bits(value) ==
    LET MASK == IntBits(255, I64_BITS)
        lower_eight_bits == BitAnd(value, MASK)
    IN  AsU8(BitAnd(lower_eight_bits, BitNot(ContinuationBits)))

RECURSIVE UnsignedLoop(_, _, _)
UnsignedLoop(w, value, bytes_written) ==
    IF IsZero(value) THEN [writer |-> w, ret |-> Ok(bytes_written)]
    ELSE
        LET rest == Shr(value, 7)
            byte == IF IsZero(rest)
                    THEN low_bits(value)
                    ELSE U8Or(low_bits(value), CONTINUATION_BIT)
            e == emit_byte(w, byte)
        IN  IF e.ret.tag = "Err" THEN e
            ELSE UnsignedLoop(e.writer, rest, bytes_written + 1)

emit_unsigned_leb128(w, value) ==
    IF IsZero(value) THEN emit_byte(w, 0)
    ELSE UnsignedLoop(w, value, 0)

(***************************************************************************)
(* ast.rs                                                                  *)
(***************************************************************************)
NumericalType == {"Int32", "Int64", "Float32", "Float64"}

ArithmeticInstruction ==
    {"Addition", "Subtraction", "Multiplication", "FloatDivision",
     "SignedDivision", "UnsignedDisivion", "SignedRemainder", "UnsignedRemainder"}

ComparisonInstruction ==
    {"Equal", "NotEqual", "GreaterThan", "LessThan", "GreaterOrEqual", "LessOrEqual"}

ScopeKind == {"Global", "Local"}

VariableInstruction == {"Get", "Set", "Tee"}

\* NumericalValue: the variant and the payload's bit pattern
Int32(bits) == [type |-> "Int32", bits |-> bits]
Int64(bits) == [type |-> "Int64", bits |-> bits]
Float32(bits) == [type |-> "Float32", bits |-> bits]
Float64(bits) == [type |-> "Float64", bits |-> bits]

Constant(value) == [value |-> value]

ArithmeticOperation == [type_ : NumericalType, instr : ArithmeticInstruction]

ComparisonOperation == [type_ : NumericalType, instr : ComparisonInstruction]

\* Index::Identifier(name) and Index::Numerical(value)
Identifier(name) ==
    [kind |-> "Identifier", name |-> name, value |-> IntBits(0, I64_BITS)]
Numerical(value) == [kind |-> "Numerical", name |-> "", value |-> value]

\* an f32 from its IEEE 754 fields: 23 fraction bits, 8 exponent bits, the sign
F32Fields(sign, exp, frac) ==
    [i \in 0 .. I32_BITS - 1 |->
        IF i < 23 THEN NatBit(frac, i)
        ELSE IF i < 31 THEN NatBit(exp, i - 23)
        ELSE sign]

\* an f64 from its IEEE 754 fields: 52 fraction bits (the low 31 and the
\* high 21), 11 exponent bits, the sign
F64Fields(sign, exp, fracHi, fracLo) ==
    [i \in 0 .. I64_BITS - 1 |->
        IF i < 31 THEN NatBit(fracLo, i)
        ELSE IF i < 52 THEN NatBit(fracHi, i - 31)
        ELSE IF i < 63 THEN NatBit(exp, i - 52)
        ELSE sign]

\* the f32 literal (-1)^sign * m * 2^e, for 0 < m < 2^24 in the normal range;
\* p is the position of the leading one of m
F32Lit(sign, m, e) ==
    LET p == CHOOSE q \in 0 .. 30 : Pow2(q) <= m /\ m \div 2 < Pow2(q)
    IN  F32Fields(sign, p + e + 127, (m - Pow2(p)) * Pow2(23 - p))

\* the f64 literal (-1)^sign * m * 2^e, for 0 < m < 2^31 in the normal range
F64Lit(sign, m, e) ==
    LET p == CHOOSE q \in 0 .. 30 : Pow2(q) <= m /\ m \div 2 < Pow2(q)
        r == m - Pow2(p)
    IN  [i \in 0 .. I64_BITS - 1 |->
            IF i < 52 THEN (IF i >= 52 - p THEN NatBit(r, i - (52 - p)) ELSE 0)
            ELSE IF i < 63 THEN NatBit(p + e + 1023, i - 52)
            ELSE sign]

(***************************************************************************)
(* opcode.rs                                                               *)
(***************************************************************************)
Unreachable_to_opcode == Byte(0)

\* one byte for the four constant types
NumericalValue_to_opcode_Shared(value) == Byte(65)

NumericalValue_to_opcode(value) ==
    CASE value.type = "Int32" -> Byte(65)
      [] value.type = "Int64" -> Byte(66)
      [] value.type = "Float32" -> Byte(67)
      [] value.type = "Float64" -> Byte(68)

\* ArithmeticOperation_to_opcode returning the byte 0 where the table
\* aborts
ArithmeticOperation_to_opcode_Default(o) ==
    LET ints == <<"Addition", "Subtraction", "Multiplication", "SignedDivision",
                  "UnsignedDisivion", "SignedRemainder", "UnsignedRemainder">>
        floats == <<"Addition", "Subtraction", "Multiplication", "FloatDivision">>
        order == IF o.type_ \in {"Int32", "Int64"} THEN ints ELSE floats
        first == CASE o.type_ = "Int32" -> 106
                   [] o.type_ = "Int64" -> 124
                   [] o.type_ = "Float32" -> 146
                   [] o.type_ = "Float64" -> 160
        at == {k \in 1 .. Len(order) : order[k] = o.instr}
    IN  IF at = {} THEN Byte(0)
        ELSE Byte(first + (CHOOSE k \in at : TRUE) - 1)

ArithmeticOperation_to_opcode(o) ==
    LET t == o.type_
        i == o.instr
    IN  CASE t = "Int32" /\ i = "Addition" -> Byte(106)
          [] t = "Int32" /\ i = "Subtraction" -> Byte(107)
          [] t = "Int32" /\ i = "Multiplication" -> Byte(108)
          [] t = "Int32" /\ i = "SignedDivision" -> Byte(109)
          [] t = "Int32" /\ i = "UnsignedDisivion" -> Byte(110)
          [] t = "Int32" /\ i = "SignedRemainder" -> Byte(111)
          [] t = "Int32" /\ i = "UnsignedRemainder" -> Byte(112)
          [] t = "Int64" /\ i = "Addition" -> Byte(124)
          [] t = "Int64" /\ i = "Subtraction" -> Byte(125)
          [] t = "Int64" /\ i = "Multiplication" -> Byte(126)
          [] t = "Int64" /\ i = "SignedDivision" -> Byte(127)
          [] t = "Int64" /\ i = "UnsignedDisivion" -> Byte(128)
          [] t = "Int64" /\ i = "SignedRemainder" -> Byte(129)
          [] t = "Int64" /\ i = "UnsignedRemainder" -> Byte(130)
          [] t \in {"Int32", "Int64"} /\ i = "FloatDivision" -> Panic
          [] t = "Float32" /\ i = "Addition" -> Byte(146)
          [] t = "Float32" /\ i = "Subtraction" -> Byte(147)
          [] t = "Float32" /\ i = "Multiplication" -> Byte(148)
          [] t = "Float32" /\ i = "FloatDivision" -> Byte(149)
          [] t = "Float64" /\ i = "Addition" -> Byte(160)
          [] t = "Float64" /\ i = "Subtraction" -> Byte(161)
          [] t = "Float64" /\ i = "Multiplication" -> Byte(162)
          [] t = "Float64" /\ i = "FloatDivision" -> Byte(163)
          [] t \in {"Float32", "Float64"}
             /\ i \in {"UnsignedDisivion", "SignedDivision"} -> Panic
          [] t \in {"Float32", "Float64"}
             /\ i \in {"SignedRemainder", "UnsignedRemainder"} -> Panic

\* the arms that are todo!() panic
ComparisonOperation_to_opcode(o) ==
    LET t == o.type_
        i == o.instr
    IN  CASE t = "Int32" /\ i = "Equal" -> Byte(69)
          [] t = "Int32" /\ i = "NotEqual" -> Byte(71)
          [] t = "Int32" /\ i = "GreaterThan" -> Panic
          [] t = "Int32" /\ i = "LessThan" -> Panic
          [] t = "Int32" /\ i = "GreaterOrEqual" -> Panic
          [] t = "Int32" /\ i = "LessOrEqual" -> Panic
          [] t = "Int64" /\ i = "Equal" -> Byte(81)
          [] t = "Int64" /\ i = "NotEqual" -> Byte(82)
          [] t = "Int64" /\ i = "GreaterThan" -> Panic
          [] t = "Int64" /\ i = "LessThan" -> Panic
          [] t = "Int64" /\ i = "GreaterOrEqual" -> Panic
          [] t = "Int64" /\ i = "LessOrEqual" -> Panic
          [] t = "Float32" /\ i = "Equal" -> Byte(91)
          [] t = "Float32" /\ i = "NotEqual" -> Byte(92)
          [] t = "Float32" /\ i = "GreaterThan" -> Panic
          [] t = "Float32" /\ i = "LessThan" -> Panic
          [] t = "Float32" /\ i = "GreaterOrEqual" -> Panic
          [] t = "Float32" /\ i = "LessOrEqual" -> Panic
          [] t = "Float64" /\ i = "Equal" -> Byte(97)
          [] t = "Float64" /\ i = "NotEqual" -> Byte(98)
          [] t = "Float64" /\ i = "GreaterThan" -> Panic
          [] t = "Float64" /\ i = "LessThan" -> Panic
          [] t = "Float64" /\ i = "GreaterOrEqual" -> Panic
          [] t = "Float64" /\ i = "LessOrEqual" -> Panic

\* a variant that gives (Global, Tee) a byte of its own
VariableOperation_to_opcode_GlobalTee(v) ==
    CASE v.scope = "Local" /\ v.instruction = "Get" -> Byte(32)
      [] v.scope = "Local" /\ v.instruction = "Set" -> Byte(33)
      [] v.scope = "Local" /\ v.instruction = "Tee" -> Byte(34)
      [] v.scope = "Global" /\ v.instruction = "Get" -> Byte(35)
      [] v.scope = "Global" /\ v.instruction = "Set" -> Byte(36)
      [] OTHER -> Byte(37)

\* the index is not read
VariableOperation_to_opcode(v) ==
    LET s == v.scope
        i == v.instruction
    IN  CASE s = "Local" /\ i = "Get" -> Byte(32)
          [] s = "Local" /\ i = "Set" -> Byte(33)
          [] s = "Local" /\ i = "Tee" -> Byte(34)
          [] s = "Global" /\ i = "Get" -> Byte(35)
          [] s = "Global" /\ i = "Set" -> Byte(36)
          [] s = "Global" /\ i = "Tee" -> Panic

\* an Opcode node is [kind, payload]
Opcode_to_opcode(node) ==
    CASE node.kind = "Unreachable" -> Unreachable_to_opcode
      [] node.kind = "Call" -> Byte(16)
      [] node.kind = "VariableInstruction" -> VariableOperation_to_opcode(node.payload)
      [] node.kind = "Constant" -> NumericalValue_to_opcode(node.payload.value)
      [] node.kind = "Arithmetic" -> ArithmeticOperation_to_opcode(node.payload)
      [] node.kind = "Comparison" -> ComparisonOperation_to_opcode(node.payload)

(***************************************************************************)
(* emitter.rs and emitter/*.rs                                             *)
(***************************************************************************)
\* the bytes of a byte-string literal
Ascii(c) ==
    CASE c = "NUL" -> 0
      [] c = "0" -> 48
      [] c = "1" -> 49
      [] c = "a" -> 97
      [] c = "m" -> 109
      [] c = "s" -> 115

ByteString(chars) == [i \in 1 .. Len(chars) |-> Ascii(chars[i])]

MAGIC == ByteString(<<"NUL", "a", "s", "m">>)
VERSION == ByteString(<<"1", "0", "0", "0">>)

emit_magic(w) == emit_bytes(w, MAGIC)

emit_version(w) == emit_bytes(w, VERSION)

\* emit_program writing the version before the magic
emit_program_VersionFirst(w, program) ==
    LET v == emit_version(w)
    IN  IF v.ret.tag = "Err" THEN v
        ELSE LET m == emit_magic(v.writer)
             IN  IF m.ret.tag = "Err" THEN m
                 ELSE [writer |-> m.writer, ret |-> OkUnit]

\* the program is not read
emit_program(w, program) ==
    LET m == emit_magic(w)
    IN  IF m.ret.tag = "Err" THEN m
        ELSE LET v == emit_version(m.writer)
             IN  IF v.ret.tag = "Err" THEN v
                 ELSE [writer |-> v.writer, ret |-> OkUnit]

f32_to_bytes(bits) == ToLeBytes(bits, 4)

f64_to_bytes(bits) == ToLeBytes(bits, 8)

emit_numerical_value(w, element) ==
    CASE element.type = "Int32" ->
            emit_signed_leb128(w, I32AsI64(element.bits))
      [] element.type = "Int64" ->
            emit_signed_leb128(w, element.bits)
      [] element.type = "Float32" ->
            LET e == emit_bytes(w, f32_to_bytes(element.bits))
            IN  [writer |-> e.writer,
                 ret |-> IF e.ret.tag = "OkUnit" THEN Ok(4) ELSE Err]
      [] element.type = "Float64" ->
            LET e == emit_bytes(w, f64_to_bytes(element.bits))
            IN  [writer |-> e.writer,
                 ret |-> IF e.ret.tag = "OkUnit" THEN Ok(8) ELSE Err]

\* emit_constant without the `?` on the opcode write
emit_constant_KeepsGoing(w, element) ==
    emit_numerical_value(
        emit_byte(w, NumericalValue_to_opcode(element.value).n).writer,
        element.value)

\* the count the opcode write returns is dropped: the value returned is
\* the count of the literal alone
emit_constant(w, element) ==
    LET opcode == NumericalValue_to_opcode(element.value)
        e == emit_byte(w, opcode.n)
    IN  IF e.ret.tag = "Err" THEN e
        ELSE emit_numerical_value(e.writer, element.value)

emit_unreachable(w) == emit_byte(w, Unreachable_to_opcode.n)

\* a panic of to_opcode happens before anything is written
emit_arithmetic_operation(w, element) ==
    LET opcode == ArithmeticOperation_to_opcode(element)
    IN  IF opcode.tag = "Panic" THEN [writer |-> w, ret |-> Panic]
        ELSE emit_byte(w, opcode.n)

(***************************************************************************)
(* Inputs.                                                                 *)
(***************************************************************************)
\* 2^k, 2^k - 1, -2^k - 1, -2^k for every k: i64::MIN is OneHot(63),
\* i64::MAX its complement, u64::MAX is the complement of LowOnes(0)
BoundaryPatterns(w) ==
    LET P == {OneHot(k, w) : k \in 0 .. w - 1} \cup {LowOnes(k, w) : k \in 0 .. w - 1}
    IN  P \cup {BitNot(p) : p \in P}

Words64 ==
    {IntBits(n, I64_BITS) : n \in -MaxSmall .. MaxSmall}
    \cup BoundaryPatterns(I64_BITS)

\* with the values of the tests of leb128.rs that are no boundary pattern
\* (the last is -20312391039) and those of emitter/constant.rs
I64Inputs ==
    Words64
    \cup {IntBits(n, I64_BITS) : n \in {36, 128, 156, 256, 512, 50603, -85092, -9999999}}
    \cup {IntBitsWide(-10, 1162445441, I64_BITS)}
    \cup {IntBits(n, I64_BITS) : n \in {5, 128, 505}}

U64Inputs ==
    Words64
    \cup {IntBits(n, I64_BITS) : n \in {15, 97, 128, 225, 256, 512, 900, 9203, 242962}}

I32Inputs ==
    {IntBits(n, I32_BITS) : n \in -MaxSmall .. MaxSmall}
    \cup BoundaryPatterns(I32_BITS)
    \cup {IntBits(n, I32_BITS) : n \in {5, 128, 505, -85092}}

\* zeros, subnormals, normals, infinities and NaNs of both signs, and
\* the literals m * 2^e
F32Inputs ==
    {F32Fields(s, e, f) :
        s \in {0, 1}, e \in {0, 1, 127, 254, 255}, f \in {0, 1, 4194304, 8388607}}
    \cup {F32Lit(s, m, e) : s \in {0, 1}, m \in {3, 5, 51}, e \in {-1, 0}}

F64Inputs ==
    {F64Fields(s, e, f[1], f[2]) :
        s \in {0, 1}, e \in {0, 1, 1023, 2046, 2047},
        f \in {<<0, 0>>, <<0, 1>>, <<1048576, 0>>, <<2097151, 2147483647>>}}
    \cup {F64Lit(s, m, e) : s \in {0, 1}, m \in {3, 5, 51}, e \in {-1, 0}}

NumericalValues ==
    {Int32(b) : b \in I32Inputs} \cup {Int64(b) : b \in I64Inputs}
    \cup {Float32(b) : b \in F32Inputs} \cup {Float64(b) : b \in F64Inputs}

Indices ==
    {Identifier(n) : n \in {"log", "idx"}}
    \cup {Numerical(IntBits(n, I64_BITS)) : n \in {0, 1}}

VariableOperations ==
    [scope : ScopeKind, instruction : VariableInstruction, index : Indices]

OpcodeNodes ==
    {[kind |-> "Unreachable", payload |-> <<>>]}
    \cup {[kind |-> "Call", payload |-> i] : i \in Indices}
    \cup {[kind |-> "VariableInstruction", payload |-> v] : v \in VariableOperations}
    \cup {[kind |-> "Constant", payload |-> Constant(v)] : v \in NumericalValues}
    \cup {[kind |-> "Arithmetic", payload |-> o] : o \in ArithmeticOperation}
    \cup {[kind |-> "Comparison", payload |-> o] : o \in ComparisonOperation}

\* Program { modules }: a Module has no content
Programs == {[modules |-> [i \in 1 .. n |-> "Module"]] : n \in 0 .. MaxModules}

Sinks == {VecSink} \cup {CursorSink(n) : n \in 0 .. MaxRoom}

(***************************************************************************)
(* The operations.                                                         *)
(***************************************************************************)
Init ==
    /\ writer \in Sinks
    /\ op = "new"
    /\ arg = <<>>
    /\ ret = None
    /\ base = 0

\* Emitter::new over a fresh sink
New ==
    /\ writer' \in Sinks
    /\ op' = "new"
    /\ arg' = <<>>
    /\ ret' = None
    /\ base' = 0

\* the state after a call that returned r = [writer, ret]
Called(name, a, r) ==
    /\ writer' = r.writer
    /\ op' = name
    /\ arg' = a
    /\ ret' = r.ret
    /\ base' = Len(writer.data)

\* every call is made on an emitter that was just built
Fresh == op = "new"

EmitByte ==
    /\ Fresh
    /\ \E b \in {0, 1, 127, 128, 255} :
        Called("emit_byte", b, emit_byte(writer, b))

EmitSignedLeb128 ==
    /\ Fresh
    /\ \E v \in I64Inputs :
        Called("emit_signed_leb128", v, emit_signed_leb128(writer, v))

EmitUnsignedLeb128 ==
    /\ Fresh
    /\ \E v \in U64Inputs :
        Called("emit_unsigned_leb128", v, emit_unsigned_leb128(writer, v))

EmitNumericalValue ==
    /\ Fresh
    /\ \E v \in NumericalValues :
        Called("emit_numerical_value", v, emit_numerical_value(writer, v))

EmitConstant ==
    /\ Fresh
    /\ \E v \in NumericalValues :
        Called("emit_constant", Constant(v), emit_constant(writer, Constant(v)))

EmitUnreachable ==
    /\ Fresh
    /\ Called("emit_unreachable", <<>>, emit_unreachable(writer))

EmitArithmeticOperation ==
    /\ Fresh
    /\ \E o \in ArithmeticOperation :
        Called("emit_arithmetic_operation", o, emit_arithmetic_operation(writer, o))

EmitProgram ==
    /\ Fresh
    /\ \E p \in Programs :
        Called("emit_program", p, emit_program(writer, p))

\* to_opcode on an Opcode node: nothing is written
ToOpcode ==
    /\ Fresh
    /\ \E node \in OpcodeNodes :
        Called("to_opcode", node, [writer |-> writer, ret |-> Opcode_to_opcode(node)])

Next ==
    \/ New
    \/ EmitByte
    \/ EmitSignedLeb128
    \/ EmitUnsignedLeb128
    \/ EmitNumericalValue
    \/ EmitConstant
    \/ EmitUnreachable
    \/ EmitArithmeticOperation
    \/ EmitProgram
    \/ ToOpcode

Spec == Init /\ [][Next]_vars

(***************************************************************************)
(* The LEB128 loops of leb128.rs, one iteration at a time: a call that is  *)
(* inside its loop has ret = [tag |-> "Running"], with the loop's value    *)
(* and bytes_written.                                                      *)
(***************************************************************************)
\* the call, up to the head of `while is_done.not()`
CallSignedLeb128 ==
    /\ Fresh
    /\ \E v \in I64Inputs :
        /\ op' = "emit_signed_leb128"
        /\ arg' = v
        /\ ret' = [tag |-> "Running", n |-> 0, value |-> v]
        /\ base' = Len(writer.data)
        /\ UNCHANGED writer

\* one pass of the body of the signed loop
SignedIteration ==
    /\ op = "emit_signed_leb128"
    /\ ret.tag = "Running"
    /\ LET bkp == ret.value
           shifted == Sar(ret.value, 6)
           is_done == IsZero(shifted) \/ IsMinusOne(shifted)
           byte == IF is_done
                   THEN AsU8(BitAnd(bkp, BitNot(ContinuationBits)))
                   ELSE AsU8(BitOr(bkp, ContinuationBits))
           e == emit_byte(writer, byte)
       IN  /\ writer' = e.writer
           /\ ret' = IF e.ret.tag = "Err" THEN Err
                     ELSE IF is_done THEN Ok(ret.n + 1)
                     ELSE [tag |-> "Running", n |-> ret.n + 1,
                           value |-> Sar(shifted, 1)]
    /\ UNCHANGED <<op, arg, base>>

\* the call, up to the head of `while value != 0`; zero returns at once
CallUnsignedLeb128 ==
    /\ Fresh
    /\ \E v \in U64Inputs :
        /\ op' = "emit_unsigned_leb128"
        /\ arg' = v
        /\ base' = Len(writer.data)
        /\ IF IsZero(v)
           THEN /\ writer' = emit_byte(writer, 0).writer
                /\ ret' = emit_byte(writer, 0).ret
           ELSE /\ ret' = [tag |-> "Running", n |-> 0, value |-> v]
                /\ UNCHANGED writer

\* one pass of the body of the unsigned loop
UnsignedIteration ==
    /\ op = "emit_unsigned_leb128"
    /\ ret.tag = "Running"
    /\ LET rest == Shr(ret.value, 7)
           byte == IF IsZero(rest)
                   THEN low_bits(ret.value)
                   ELSE U8Or(low_bits(ret.value), CONTINUATION_BIT)
           e == emit_byte(writer, byte)
       IN  /\ writer' = e.writer
           /\ ret' = IF e.ret.tag = "Err" THEN Err
                     ELSE IF IsZero(rest) THEN Ok(ret.n + 1)
                     ELSE [tag |-> "Running", n |-> ret.n + 1, value |-> rest]
    /\ UNCHANGED <<op, arg, base>>

LoopNext ==
    \/ CallSignedLeb128
    \/ SignedIteration
    \/ CallUnsignedLeb128
    \/ UnsignedIteration

\* a call that has begun keeps executing
LoopSpec ==
    /\ Init
    /\ [][LoopNext]_vars
    /\ WF_vars(SignedIteration)
    /\ WF_vars(UnsignedIteration)

(***************************************************************************)
(* Calls made one after another on one Emitter: each call starts from the  *)
(* sink the calls before it left, until the sink took MaxWrites writes.    *)
(***************************************************************************)
ThenEmitByte ==
    /\ writer.writes < MaxWrites
    /\ \E b \in {0, 255} :
        Called("emit_byte", b, emit_byte(writer, b))

ThenEmitConstant ==
    /\ writer.writes < MaxWrites
    /\ \E v \in {Int32(IntBits(-1, I32_BITS)), Int64(IntBits(128, I64_BITS)),
                 Float32(F32Lit(0, 3, -1))} :
        Called("emit_constant", Constant(v), emit_constant(writer, Constant(v)))

ThenEmitUnreachable ==
    /\ writer.writes < MaxWrites
    /\ Called("emit_unreachable", <<>>, emit_unreachable(writer))

SequenceNext ==
    \/ New
    \/ ThenEmitByte
    \/ ThenEmitConstant
    \/ ThenEmitUnreachable

SequenceSpec == Init /\ [][SequenceNext]_vars

(***************************************************************************)
(* The text parser (src/src/parser/*.rs).  A text is a sequence of         *)
(* one-character strings.  A parser returns an IResult: Ok with the        *)
(* unconsumed text and the parsed value, a recoverable Error or a          *)
(* Failure, both carrying the VerboseError trail (innermost entry first,   *)
(* each with the length of the text it was raised at); a panic unwinds     *)
(* through every caller.  The grave accent is written "U+0060".           *)
(***************************************************************************)
IOk(rest, value) == [kind |-> "Ok", rest |-> rest, value |-> value, errors |-> <<>>]
IError(input, what) ==
    [kind |-> "Error", rest |-> <<>>, value |-> <<>>,
     errors |-> <<[at |-> Len(input), what |-> what]>>]
IPanic == [kind |-> "Panic", rest |-> <<>>, value |-> <<>>, errors |-> <<>>]

Take(input, n) == SubSeq(input, 1, n)
Drop(input, n) == SubSeq(input, n + 1, Len(input))

\* the length of the longest prefix of input made of characters of S
PrefixLen(input, S) ==
    IF \A i \in 1 .. Len(input) : input[i] \in S
    THEN Len(input)
    ELSE (CHOOSE i \in 1 .. Len(input) :
              /\ input[i] \notin S
              /\ \A j \in 1 .. i - 1 : input[j] \in S) - 1

Digit == {"0", "1", "2", "3", "4", "5", "6", "7", "8", "9"}
LowerCase ==
    {"a", "b", "c", "d", "e", "f", "g", "h", "i", "j", "k", "l", "m",
     "n", "o", "p", "q", "r", "s", "t", "u", "v", "w", "x", "y", "z"}
UpperCase ==
    {"A", "B", "C", "D", "E", "F", "G", "H", "I", "J", "K", "L", "M",
     "N", "O", "P", "Q", "R", "S", "T", "U", "V", "W", "X", "Y", "Z"}
Multispace == {" ", "\t", "\r", "\n"}

\* the value of a one-point function: With([x \in {e} |-> body]) is body
\* with x standing for the value of e, worked out once
With(f) == f[CHOOSE x \in DOMAIN f : TRUE]

\* nom::character::complete::multispace0: never fails
multispace0(input) ==
    LET n == PrefixLen(input, Multispace)
    IN  IOk(Drop(input, n), Take(input, n))

\* nom::bytes::complete::tag
tag(t, input) ==
    IF Len(input) >= Len(t) /\ Take(input, Len(t)) = t
    THEN IOk(Drop(input, Len(t)), t)
    ELSE IError(input, "Tag")

\* nom::character::complete::char
char(c, input) ==
    IF input # <<>> /\ Head(input) = c
    THEN IOk(Tail(input), c)
    ELSE IError(input, "Char")

\* nom::bytes::complete::take_while1 over the characters of S
take_while1(S, input) ==
    LET n == PrefixLen(input, S)
    IN  IF n = 0 THEN IError(input, "TakeWhile1")
        ELSE IOk(Drop(input, n), Take(input, n))

\* cut that leaves an Error recoverable
cut_Recoverable(r) == r

\* nom::combinator::cut on the result r of the wrapped parser
cut(r) == IF r.kind = "Error" THEN [r EXCEPT !.kind = "Failure"] ELSE r

\* nom::error::context on the result r of the wrapped parser run on input
context(name, input, r) ==
    IF r.kind \in {"Error", "Failure"}
    THEN [r EXCEPT !.errors = Append(@, [at |-> Len(input), what |-> name])]
    ELSE r

\* nom::branch::alt ending with every alternative's Error: the last Error
\* is kept and ErrorKind::Alt appended
AltError(input, r) ==
    [r EXCEPT !.errors = Append(@, [at |-> Len(input), what |-> "Alt"])]

\* Parser::map on the result r
Map(r, value) == IF r.kind = "Ok" THEN [r EXCEPT !.value = value] ELSE r

(***************************************************************************)
(* parser/utils.rs                                                         *)
(***************************************************************************)
\* a variant that leaves `$` out of the identifier characters
is_acceptable_identifier_character_NoDollar(ch) ==
    ch \in Digit \cup LowerCase \cup UpperCase \cup
        {"!", "#", "%", "&", "´", "*", "+", "-", ".", "/", ":", "<",
         "=", ">", "?", "@", "\\", "^", "_", "U+0060", "|", "~"}

is_acceptable_identifier_character(ch) ==
    \/ ch \in Digit \cup LowerCase \cup UpperCase
    \/ ch \in {"!", "#", "$", "%", "&", "´", "*", "+", "-", ".", "/", ":",
               "<", "=", ">", "?", "@", "\\", "^", "_", "U+0060", "|", "~"}

\* the characters of the texts
Alphabet ==
    Digit \cup LowerCase \cup UpperCase \cup Multispace \cup
    {"!", "#", "$", "%", "&", "´", "*", "+", "-", ".", "/", ":", "<", "=",
     ">", "?", "@", "\\", "^", "_", "U+0060", "|", "~", "(", ")", "\"", "'", ",",
     ";", "[", "]", "{", "}"}

\* the identifier is held as its text (SmallString::new)
parse_identifier(input) ==
    LET dollar == char("$", input)
        name == take_while1({ch \in Alphabet : is_acceptable_identifier_character(ch)},
                            dollar.rest)
    IN  context("identifier", input,
                IF dollar.kind # "Ok" THEN dollar ELSE name)

RECURSIVE EscapedLoop(_, _)
\* the loop of nom::bytes::complete::escaped with none_of("\\\"") as the
\* normal parser, `\` as the control character and tag("\"") as the
\* escapable parser; i is the text left to look at
EscapedLoop(input, i) ==
    IF i = <<>> THEN IOk(<<>>, input)
    ELSE IF Head(i) \notin {"\\", "\""} THEN EscapedLoop(input, Tail(i))
    ELSE IF Head(i) = "\\"
    THEN IF Len(i) <= 1 THEN IError(input, "Escaped")
         ELSE LET escapable == tag(<<"\"">>, Tail(i))
              IN  IF escapable.kind # "Ok" THEN escapable
                  ELSE EscapedLoop(input, escapable.rest)
    ELSE IF Len(i) = Len(input) THEN IError(input, "Escaped")
    ELSE IOk(i, Take(input, Len(input) - Len(i)))

\* parse_string without the empty alternative
parse_string_NonEmpty(input) ==
    LET open == tag(<<"\"">>, input)
        esc == EscapedLoop(open.rest, open.rest)
        close == tag(<<"\"">>, esc.rest)
    IN  IF open.kind # "Ok" THEN open
        ELSE IF esc.kind # "Ok" THEN esc
        ELSE IF close.kind # "Ok" THEN close
        ELSE IOk(close.rest, esc.value)

\* the value is the text between the quotes, escapes as written
parse_string(input) ==
    LET open == tag(<<"\"">>, input)
        esc == EscapedLoop(open.rest, open.rest)
        esc_or_empty == IF esc.kind = "Error" THEN tag(<<>>, open.rest) ELSE esc
        close == tag(<<"\"">>, esc_or_empty.rest)
    IN  IF open.kind # "Ok" THEN open
        ELSE IF esc_or_empty.kind # "Ok" THEN esc_or_empty
        ELSE IF close.kind # "Ok" THEN close
        ELSE IOk(close.rest, esc_or_empty.value)

\* opt that reads the value and forgets it
opt_Forgetful(input, r) ==
    IF r.kind = "Error" THEN IOk(input, <<>>) ELSE Map(r, <<>>)

\* nom::combinator::opt on the result r of the wrapped parser run on input:
\* an Option is a sequence of no or one value
opt(input, r) ==
    IF r.kind = "Error" THEN IOk(input, <<>>) ELSE Map(r, <<r.value>>)

parse_numerical_type(input) ==
    IF tag(<<"i", "3", "2">>, input).kind = "Ok" THEN Map(tag(<<"i", "3", "2">>, input), "Int32")
    ELSE IF tag(<<"i", "6", "4">>, input).kind = "Ok" THEN Map(tag(<<"i", "6", "4">>, input), "Int64")
    ELSE IF tag(<<"f", "3", "2">>, input).kind = "Ok" THEN Map(tag(<<"f", "3", "2">>, input), "Float32")
    ELSE IF tag(<<"f", "6", "4">>, input).kind = "Ok" THEN Map(tag(<<"f", "6", "4">>, input), "Float64")
    ELSE AltError(input, tag(<<"f", "6", "4">>, input))

\* Type::Numerical
TypeNumerical(t) == [kind |-> "Numerical", numerical |-> t]

parse_type(input) ==
    LET numerical == parse_numerical_type(input)
    IN  context("type", input, Map(numerical, TypeNumerical(numerical.value)))

\* the integers of the digit loop are sequences of WIDE bits, the least
\* significant first: ten times an i64 and a digit more fit
WIDE == I64_BITS + 4

Wide(n) == [i \in 1 .. WIDE |-> IntBits(n, WIDE)[i - 1]]

RECURSIVE WideAddFrom(_, _, _, _)
\* the bits i .. WIDE of a + b, given the carry into bit i
WideAddFrom(a, b, i, carry) ==
    IF i > WIDE THEN <<>>
    ELSE <<(a[i] + b[i] + carry) % 2>>
            \o WideAddFrom(a, b, i + 1, (a[i] + b[i] + carry) \div 2)

\* checked_mul and checked_add that never overflow
FitsInt_Always(a, bits) == TRUE

\* a is the value of a bits-bit integer
FitsInt(a, bits) == \A i \in bits .. WIDE : a[i] = a[bits]

DigitValue(c) ==
    CHOOSE d \in 0 .. 9 :
        <<"0", "1", "2", "3", "4", "5", "6", "7", "8", "9">>[d + 1] = c

RECURSIVE IntLoop(_, _, _, _, _)
\* the digit loop of nom::character::complete::i32 and i64: value is the
\* number read so far, i the text left, positive the sign; checked_mul
\* (ten times value is 8 value + 2 value), then checked_add or checked_sub,
\* end the parse with an Error on overflow
IntLoop(input, i, value, positive, bits) ==
    IF i = <<>> \/ Head(i) \notin Digit
    THEN IOk(i, [k \in 0 .. bits - 1 |-> value[k + 1]])
    ELSE
    With([times \in {WideAddFrom(
                        [k \in 1 .. WIDE |-> IF k <= 3 THEN 0 ELSE value[k - 3]],
                        [k \in 1 .. WIDE |-> IF k <= 1 THEN 0 ELSE value[k - 1]],
                        1, 0)} |->
    With([next \in {WideAddFrom(times,
                        Wide(IF positive THEN DigitValue(Head(i))
                             ELSE -DigitValue(Head(i))), 1, 0)} |->
        IF ~FitsInt(times, bits) \/ ~FitsInt(next, bits)
        THEN IError(input, "Digit")
        ELSE IntLoop(input, Tail(i), next, positive, bits)])])

\* nom::character::complete::i32 (bits = 32) and i64 (bits = 64): an
\* optional sign, then at least one digit
parse_int(input, bits) ==
    LET signed == input # <<>> /\ Head(input) \in {"-", "+"}
        i == IF signed THEN Tail(input) ELSE input
    IN  IF i = <<>> \/ Head(i) \notin Digit
        THEN IError(input, "Digit")
        ELSE IntLoop(input, i, Wide(0), ~(signed /\ Head(input) = "-"), bits)

parse_index(input) ==
    LET identifier == parse_identifier(input)
        numerical == parse_int(input, I64_BITS)
    IN  IF identifier.kind # "Error"
        THEN Map(identifier, Identifier(identifier.value))
        ELSE IF numerical.kind # "Error"
        THEN Map(numerical, Numerical(numerical.value))
        ELSE AltError(input, numerical)

\* the text the inner parser of parse_parenthesis_enclosed is run on: what
\* follows the opening parenthesis and the whitespace after it
Inside(input) ==
    IF input = <<>> THEN <<>> ELSE multispace0(Tail(input)).rest

\* parse_parenthesis_enclosed(inner)(input), given the result of inner on
\* Inside(input)
parse_parenthesis_enclosed(input, inner) ==
    LET open == char("(", input)
        close == context("closing parenthesis", inner.rest,
                         cut(char(")", multispace0(inner.rest).rest)))
    IN  IF open.kind # "Ok" THEN open
        ELSE IF inner.kind # "Ok" THEN inner
        ELSE IF close.kind # "Ok" THEN close
        ELSE IOk(close.rest, inner.value)

(***************************************************************************)
(* parser/module.rs                                                        *)
(***************************************************************************)
\* parse_module without the whitespace skipped before the parenthesis
parse_module_NoLeadingSpace(input) ==
    parse_parenthesis_enclosed(input,
        context("module", Inside(input),
            Map(tag(<<"m", "o", "d", "u", "l", "e">>, multispace0(Inside(input)).rest), "Module")))

parse_module(input) ==
    LET start == multispace0(input).rest
        inner == Map(tag(<<"m", "o", "d", "u", "l", "e">>, multispace0(Inside(start)).rest), "Module")
    IN  parse_parenthesis_enclosed(start, context("module", Inside(start), inner))

(***************************************************************************)
(* parser/function.rs                                                      *)
(***************************************************************************)
\* no whitespace is skipped before the opening parenthesis
parse_export(input) ==
    LET keyword == tag(<<"e", "x", "p", "o", "r", "t">>, multispace0(Inside(input)).rest)
        name == parse_string(multispace0(keyword.rest).rest)
        inner == IF keyword.kind # "Ok" THEN keyword ELSE name
    IN  parse_parenthesis_enclosed(input, context("export", Inside(input), inner))

(***************************************************************************)
(* parser/instruction.rs                                                   *)
(***************************************************************************)
RECURSIVE DecimalNat(_)
\* the number a text of fewer than ten digits spells
DecimalNat(digits) ==
    IF digits = <<>> THEN 0
    ELSE 10 * DecimalNat(Take(digits, Len(digits) - 1))
            + DigitValue(digits[Len(digits)])

\* nom::number::complete::recognize_float: a sign, digits with an optional
\* fraction or a fraction alone, and an optional exponent: after its mark
\* come an optional sign and digits under cut.  The value is the literal as
\* [negative, digits, scale, short], which spells digits * 10^scale; an
\* exponent of more than two digits counts as 0 and makes the literal long.
\* The literals nan, inf and infinity are left out.
recognize_float(input) ==
    With([a \in {IF input # <<>> /\ Head(input) \in {"+", "-"}
                 THEN Tail(input) ELSE input} |->
    With([whole \in {PrefixLen(a, Digit)} |->
    With([fraction \in {IF Len(a) > whole /\ a[whole + 1] = "."
                        THEN PrefixLen(Drop(a, whole + 1), Digit) ELSE -1} |->
    With([c \in {IF fraction > 0 \/ (fraction = 0 /\ whole > 0)
                 THEN Drop(a, whole + 1 + fraction) ELSE Drop(a, whole)} |->
    With([e \in {IF Len(c) > 1 /\ c[2] \in {"+", "-"}
                 THEN Drop(c, 2) ELSE Drop(c, 1)} |->
    With([n \in {PrefixLen(e, Digit)} |->
    With([exponent \in {IF c = <<>> \/ Head(c) \notin {"e", "E"} THEN IOk(c, 0)
                        ELSE IF n = 0 THEN cut(IError(e, "Digit"))
                        ELSE IF n > 2 THEN IOk(Drop(e, n), 0)
                        ELSE IF c[2] = "-" THEN IOk(Drop(e, n), -DecimalNat(Take(e, n)))
                        ELSE IOk(Drop(e, n), DecimalNat(Take(e, n)))} |->
        IF whole = 0 /\ fraction <= 0 THEN IError(input, "Char")
        ELSE Map(exponent,
                 [negative |-> Head(input) = "-",
                  digits |-> Take(a, whole)
                             \o (IF fraction > 0
                                 THEN SubSeq(a, whole + 2, whole + 1 + fraction)
                                 ELSE <<>>),
                  scale |-> exponent.value - (IF fraction > 0 THEN fraction ELSE 0),
                  short |-> /\ whole + (IF fraction > 0 THEN fraction ELSE 0) <= 9
                           /\ Len(c) - Len(exponent.rest) <= 4])
    ])])])])])])])

\* nom::number::complete::double: the f64 that the literal spells, worked
\* out where the literal is short and is a binary fraction m * 2^e; where
\* it is not worked out the value is [inexact |-> the literal]
parse_f64(input) ==
    With([r \in {recognize_float(input)} |->
        IF r.kind # "Ok" THEN r ELSE
    With([n \in {IF r.value.short THEN DecimalNat(r.value.digits) ELSE 0} |->
        Map(r,
            IF ~r.value.short \/ r.value.scale > 9 \/ r.value.scale < -9
            THEN [inexact |-> r.value]
            ELSE IF n = 0
            THEN [i \in 0 .. I64_BITS - 1 |->
                    IF i = I64_BITS - 1 /\ r.value.negative THEN 1 ELSE 0]
            ELSE IF r.value.scale >= 0 /\ n <= 2147483647 \div (10 ^ r.value.scale)
            THEN F64Lit(IF r.value.negative THEN 1 ELSE 0,
                        n * (10 ^ r.value.scale), 0)
            ELSE IF r.value.scale < 0 /\ n % (5 ^ (-r.value.scale)) = 0
            THEN F64Lit(IF r.value.negative THEN 1 ELSE 0,
                        n \div (5 ^ (-r.value.scale)), r.value.scale)
            ELSE [inexact |-> r.value])])])

\* `float64 as f32`, worked out where the f64 is zero or is a normal f32
\* without rounding
F64AsF32(a) ==
    IF DOMAIN a # 0 .. I64_BITS - 1 THEN a
    ELSE With([exp \in {a[52] + 2 * a[53] + 4 * a[54] + 8 * a[55] + 16 * a[56]
                        + 32 * a[57] + 64 * a[58] + 128 * a[59] + 256 * a[60]
                        + 512 * a[61] + 1024 * a[62]} |->
        IF \A i \in 0 .. I64_BITS - 2 : a[i] = 0
        THEN [i \in 0 .. I32_BITS - 1 |->
                IF i = I32_BITS - 1 THEN a[I64_BITS - 1] ELSE 0]
        ELSE IF exp - 1023 >= -126 /\ exp - 1023 <= 127 /\ \A i \in 0 .. 28 : a[i] = 0
        THEN [i \in 0 .. I32_BITS - 1 |->
                IF i < 23 THEN a[i + 29]
                ELSE IF i < 31 THEN NatBit(exp - 1023 + 127, i - 23)
                ELSE a[I64_BITS - 1]]
        ELSE [inexact |-> a]])

\* the type tag, ".const", whitespace, and the literal of the type read
parse_const(input) ==
    With([numerical_type \in {parse_numerical_type(input)} |->
        IF numerical_type.kind # "Ok" THEN numerical_type ELSE
    With([const \in {tag(<<".", "c", "o", "n", "s", "t">>, numerical_type.rest)} |->
        IF const.kind # "Ok" THEN const ELSE
    With([literal \in {multispace0(const.rest).rest} |->
        CASE numerical_type.value = "Int32" ->
                With([int32 \in {parse_int(literal, I32_BITS)} |->
                    IF int32.kind = "Ok" THEN Map(int32, Int32(int32.value))
                    ELSE int32])
          [] numerical_type.value = "Int64" ->
                With([int64 \in {parse_int(literal, I64_BITS)} |->
                    IF int64.kind = "Ok" THEN Map(int64, Int64(int64.value))
                    ELSE int64])
          [] numerical_type.value = "Float32" ->
                With([float64 \in {parse_f64(literal)} |->
                    IF float64.kind = "Ok"
                    THEN Map(float64, Float32(F64AsF32(float64.value)))
                    ELSE float64])
          [] numerical_type.value = "Float64" ->
                With([float64 \in {parse_f64(literal)} |->
                    IF float64.kind = "Ok"
                    THEN Map(float64, Float64(float64.value))
                    ELSE float64])])])])

parse_call(input) ==
    With([call \in {tag(<<"c", "a", "l", "l">>, input)} |->
        IF call.kind # "Ok" THEN call ELSE
    With([at \in {multispace0(call.rest).rest} |->
        context("numerical index or identifier", at, parse_index(at))])])

\* parse_variable_opcode with ".tee" tried in the global scope as well
parse_variable_opcode_AnyTee(scope, input) ==
    IF tag(<<".", "s", "e", "t">>, input).kind = "Ok" THEN Map(tag(<<".", "s", "e", "t">>, input), "Set")
    ELSE IF tag(<<".", "g", "e", "t">>, input).kind = "Ok" THEN Map(tag(<<".", "g", "e", "t">>, input), "Get")
    ELSE IF tag(<<".", "t", "e", "e">>, input).kind = "Ok" THEN Map(tag(<<".", "t", "e", "e">>, input), "Tee")
    ELSE AltError(input, tag(<<".", "t", "e", "e">>, input))

\* the match on the scope: alt((parse_set, parse_get)) for Global,
\* alt((parse_set, parse_get, parse_tee)) for Local
parse_variable_opcode(scope, input) ==
    IF tag(<<".", "s", "e", "t">>, input).kind = "Ok" THEN Map(tag(<<".", "s", "e", "t">>, input), "Set")
    ELSE IF tag(<<".", "g", "e", "t">>, input).kind = "Ok" THEN Map(tag(<<".", "g", "e", "t">>, input), "Get")
    ELSE IF scope = "Global" THEN AltError(input, tag(<<".", "g", "e", "t">>, input))
    ELSE IF tag(<<".", "t", "e", "e">>, input).kind = "Ok" THEN Map(tag(<<".", "t", "e", "e">>, input), "Tee")
    ELSE AltError(input, tag(<<".", "t", "e", "e">>, input))

\* the scope is alt((value(ScopeKind::Global, tag("global")),
\* value(ScopeKind::Local, tag("local"))))
parse_variable_instruction(input) ==
    With([scope \in {IF tag(<<"g", "l", "o", "b", "a", "l">>, input).kind = "Ok"
                     THEN Map(tag(<<"g", "l", "o", "b", "a", "l">>, input), "Global")
                     ELSE IF tag(<<"l", "o", "c", "a", "l">>, input).kind = "Ok"
                     THEN Map(tag(<<"l", "o", "c", "a", "l">>, input), "Local")
                     ELSE AltError(input, tag(<<"l", "o", "c", "a", "l">>, input))} |->
        IF scope.kind # "Ok" THEN scope ELSE
    With([opcode \in {parse_variable_opcode(scope.value, scope.rest)} |->
        IF opcode.kind # "Ok" THEN opcode ELSE
    With([index \in {parse_index(multispace0(opcode.rest).rest)} |->
        IF index.kind # "Ok" THEN index
        ELSE Map(index, [kind |-> "VariableInstruction",
                         payload |-> [scope |-> scope.value,
                                      instruction |-> opcode.value,
                                      index |-> index.value]])])])])

parse_unreachable(input) == Map(tag(<<"u", "n", "r", "e", "a", "c", "h", "a", "b", "l", "e">>, input), <<>>)

parse_opcode(input) ==
    With([variable \in {parse_variable_instruction(input)} |->
        IF variable.kind # "Error" THEN variable ELSE
    With([const \in {parse_const(input)} |->
        IF const.kind = "Ok"
        THEN Map(const, [kind |-> "Constant", payload |-> Constant(const.value)])
        ELSE IF const.kind # "Error" THEN const ELSE
    With([unreachable \in {parse_unreachable(input)} |->
        IF unreachable.kind = "Ok"
        THEN Map(unreachable, [kind |-> "Unreachable", payload |-> <<>>])
        ELSE
    With([call \in {context("call", input, parse_call(input))} |->
        IF call.kind = "Ok"
        THEN Map(call, [kind |-> "Call", payload |-> call.value])
        ELSE IF call.kind # "Error" THEN call
        ELSE AltError(input, call)])])])])

(***************************************************************************)
(* parser/function.rs: parameters, locals and functions                    *)
(***************************************************************************)
\* the inner parser of parse_parameter and of parse_local after the
\* keyword: an optional identifier and a type make the named value
parse_named_type(keyword) ==
    IF keyword.kind # "Ok" THEN keyword ELSE
    With([identifier \in {opt(keyword.rest,
                              parse_identifier(multispace0(keyword.rest).rest))} |->
        IF identifier.kind # "Ok" THEN identifier ELSE
    With([type_ \in {parse_type(multispace0(identifier.rest).rest)} |->
        IF type_.kind # "Ok" THEN type_
        ELSE Map(type_, [identifier |-> identifier.value,
                         type_ |-> type_.value])])])

parse_parameter(input) ==
    With([start \in {multispace0(input).rest} |->
        parse_parenthesis_enclosed(start,
            context("parameter", Inside(start),
                parse_named_type(tag(<<"p", "a", "r", "a", "m">>, multispace0(Inside(start)).rest))))])

parse_local(input) ==
    With([start \in {multispace0(input).rest} |->
        parse_parenthesis_enclosed(start,
            context("local", Inside(start),
                parse_named_type(tag(<<"l", "o", "c", "a", "l">>, multispace0(Inside(start)).rest))))])

\* the parsers that are repeated: parse_export, parse_parameter, parse_local
\* and the argument of a folded instruction,
\* preceded(multispace0, parse_parenthesis_enclosed(parse_const))
Repeated(rule, input) ==
    CASE rule = "export" -> parse_export(input)
      [] rule = "parameter" -> parse_parameter(input)
      [] rule = "local" -> parse_local(input)
      [] rule = "argument" ->
            With([start \in {multispace0(input).rest} |->
                parse_parenthesis_enclosed(start, parse_const(Inside(start)))])

RECURSIVE many0(_, _)
\* nom::multi::many0: an Error ends the repetition, a Failure is returned
many0(rule, input) ==
    With([first \in {Repeated(rule, input)} |->
        IF first.kind = "Error" THEN IOk(input, <<>>)
        ELSE IF first.kind # "Ok" THEN first
        ELSE IF Len(first.rest) = Len(input) THEN IError(input, "Many0")
        ELSE With([more \in {many0(rule, first.rest)} |->
                IF more.kind # "Ok" THEN more
                ELSE IOk(more.rest, <<first.value>> \o more.value)])])

parse_function(input) ==
    parse_parenthesis_enclosed(input, context("function", Inside(input),
    With([keyword \in {tag(<<"f", "u", "n", "c">>, multispace0(Inside(input)).rest)} |->
        IF keyword.kind # "Ok" THEN keyword ELSE
    With([named \in {multispace0(keyword.rest).rest} |->
    With([identifier \in {opt(named, parse_identifier(named))} |->
        IF identifier.kind # "Ok" THEN identifier ELSE
    With([exports \in {many0("export", identifier.rest)} |->
        IF exports.kind # "Ok" THEN exports ELSE
    With([parameters \in {many0("parameter", exports.rest)} |->
        IF parameters.kind # "Ok" THEN parameters ELSE
    With([local_variables \in {many0("local", parameters.rest)} |->
        IF local_variables.kind # "Ok" THEN local_variables
        ELSE Map(local_variables,
                 [identifier |-> identifier.value,
                  parameters |-> parameters.value,
                  local_variables |-> local_variables.value,
                  exports |-> exports.value])])])])])])])))

(***************************************************************************)
(* parser/instruction.rs: instructions                                     *)
(***************************************************************************)
\* parse_instruction_with_arguments: the arguments are the values
\* parse_const returned
parse_instruction_with_arguments(input) ==
    With([opcode \in {parse_opcode(input)} |->
        IF opcode.kind # "Ok" THEN opcode ELSE
    With([arguments \in {many0("argument", opcode.rest)} |->
        IF arguments.kind # "Ok" THEN arguments
        ELSE Map(arguments, [opcode |-> opcode.value,
                             arguments |-> arguments.value])])])

parse_instruction(input) ==
    With([plain \in {parse_opcode(input)} |->
        IF plain.kind = "Ok"
        THEN Map(plain, [opcode |-> plain.value, arguments |-> <<>>])
        ELSE IF plain.kind # "Error" THEN plain ELSE
    With([folded \in {parse_parenthesis_enclosed(input,
                        parse_instruction_with_arguments(Inside(input)))} |->
        IF folded.kind # "Error" THEN folded
        ELSE AltError(input, folded)])])

(***************************************************************************)
(* parser/import.rs                                                        *)
(***************************************************************************)
\* assert! that lets every value through
asserting_Unchecked(condition, r) == r

\* assert!(condition) before r is returned
asserting(condition, r) == IF condition THEN r ELSE IPanic

parse_function_import(input) ==
    parse_parenthesis_enclosed(input, context("function import", Inside(input),
    With([keyword \in {tag(<<"i", "m", "p", "o", "r", "t">>, multispace0(Inside(input)).rest)} |->
        IF keyword.kind # "Ok" THEN keyword ELSE
    With([namespace \in {parse_string(multispace0(keyword.rest).rest)} |->
        IF namespace.kind # "Ok" THEN namespace ELSE
    With([fn_name \in {parse_string(multispace0(namespace.rest).rest)} |->
        IF fn_name.kind # "Ok" THEN fn_name ELSE
    With([function \in {parse_function(multispace0(fn_name.rest).rest)} |->
        IF function.kind # "Ok" THEN function
        ELSE asserting(/\ function.value.exports = <<>>
                       /\ function.value.local_variables = <<>>,
                       Map(function, [namespace |-> namespace.value,
                                      fn_name |-> fn_name.value,
                                      signature |-> function.value]))])])])])))

(***************************************************************************)
(* The calls of the parser.  A parse function reads its text and nothing   *)
(* else: one call from the initial state shows each of its outcomes.       *)
(***************************************************************************)
\* the texts of at most n characters of S
Texts(S, n) == UNION {[1 .. k -> S] : k \in 0 .. n}

IdentifierTexts ==
    Texts({"$", "a", "7", "?", "´", " ", "("}, MaxText)
        \cup {<<"$", "i", "d", "x">>, <<"$", "a", "s", "d", "_", "a", "a", "?", " ", "a">>, <<"$", "U+0060", "x">>}

RECURSIVE Concat(_)
\* the pieces of a text put together
Concat(pieces) ==
    IF pieces = <<>> THEN <<>> ELSE Head(pieces) \o Concat(Tail(pieces))

ModuleTexts ==
    {Concat(p) : p \in Texts({<<" ">>, <<"\n", " ", " ">>, <<"(">>, <<")">>, <<"m", "o", "d", "u", "l", "e">>, <<"m", "o", "d">>},
                             MaxPieces)}
        \cup {<<" ", "(", " ", " ", " ", "m", "o", "d", "u", "l", "e">>, <<"(", "\t", "m", "o", "d", "u", "l", "e", "\r", "\n", ")", " ", "(", "m", "o", "d", "u", "l", "e", ")">>, <<"(", "M", "o", "d", "u", "l", "e", ")">>,
              <<"(", "m", "o", "d", "u", "l", "e", "s", ")">>, <<" ", "(", " ", "m", "o", "d", "u", "l", "e", " ", ")", " ">>}

\* an export clause written part by part, well formed or not
ExportTexts ==
    {Concat(<<open, s1, keyword, s2, name, s3, close, after>>) :
        open \in {<<"(">>, <<>>}, s1 \in {<<>>, <<" ">>},
        keyword \in {<<"e", "x", "p", "o", "r", "t">>, <<"e", "x", "p", "o", "r">>, <<"e", "x", "p", "o", "r", "T">>},
        s2 \in {<<>>, <<" ">>},
        name \in {<<>>, <<"\"", "\"">>, <<"\"", "a", "\"">>, <<"\"", "v", "a", "l", "i", "d", "\"">>, <<"\"">>, <<"\"", "v", "a", "l", "i", "d">>,
                  <<"v", "a", "l", "i", "d", "\"">>, <<"\"", "v", "a", "l", "i", "d", "\"", "\"">>, <<"\"", "a", " ", "b", ")", "\"">>, <<"\"", "a", "\\", "\"", "b", "\"">>,
                  <<"\"", "a", "\\", "n", "b", "\"">>, <<"\"", "a", "\\">>},
        s3 \in {<<>>, <<"\n">>}, close \in {<<")">>, <<>>},
        after \in {<<>>, <<" ", "(", "e", "x", "p", "o", "r", "t", " ", "\"", "b", "\"", ")">>}}

\* Function values with 0 .. MaxClauses parameters and locals
Functions ==
    [identifier : {<<>>, <<<<"a", "d", "d">>>>},
     exports : {<<>>, <<<<"a">>>>, <<<<"a">>, <<"b">>>>},
     parameters :
        Texts({[identifier |-> <<<<"n", "u", "m", "b", "e", "r">>>>, type_ |-> TypeNumerical("Float64")],
               [identifier |-> <<>>, type_ |-> TypeNumerical("Int64")],
               [identifier |-> <<>>, type_ |-> TypeNumerical("Int32")]}, MaxClauses),
     local_variables :
        Texts({[identifier |-> <<<<"l", "1">>>>, type_ |-> TypeNumerical("Int32")],
               [identifier |-> <<>>, type_ |-> TypeNumerical("Float32")],
               [identifier |-> <<<<"n", "u", "m", "b", "e", "r">>>>, type_ |-> TypeNumerical("Int64")]},
              MaxClauses)]

\* the clauses written one after the other, sep before each
ClausesText(keyword, clauses, sep) ==
    Concat([i \in DOMAIN clauses |->
        sep \o <<"(">> \o keyword
        \o (IF clauses[i].identifier = <<>> THEN <<>>
            ELSE <<" ", "$">> \o clauses[i].identifier[1])
        \o <<" ">>
        \o (CASE clauses[i].type_.numerical = "Int32" -> <<"i", "3", "2">>
              [] clauses[i].type_.numerical = "Int64" -> <<"i", "6", "4">>
              [] clauses[i].type_.numerical = "Float32" -> <<"f", "3", "2">>
              [] clauses[i].type_.numerical = "Float64" -> <<"f", "6", "4">>)
        \o <<")">>])

\* the func form of f: sep before the identifier and before every clause
FunctionText(f, sep) ==
    <<"(", "f", "u", "n", "c">>
    \o (IF f.identifier = <<>> THEN <<>> ELSE sep \o <<"$">> \o f.identifier[1])
    \o Concat([i \in DOMAIN f.exports |->
            sep \o <<"(", "e", "x", "p", "o", "r", "t", " ", "\"">> \o f.exports[i] \o <<"\"", ")">>])
    \o ClausesText(<<"p", "a", "r", "a", "m">>, f.parameters, sep)
    \o ClausesText(<<"l", "o", "c", "a", "l">>, f.local_variables, sep)
    \o <<")">>

\* func forms, whole or without their last one or two characters
FunctionForms ==
    {[text |-> Take(FunctionText(f, sep), Len(FunctionText(f, sep)) - missing),
      function |-> f, sep |-> sep, missing |-> missing] :
        f \in Functions, sep \in {<<" ">>, <<>>, <<"\n", " ", " ">>}, missing \in {0}}
    \cup
    {[text |-> Take(FunctionText(f, <<" ">>), Len(FunctionText(f, <<" ">>)) - missing),
      function |-> f, sep |-> <<" ">>, missing |-> missing] :
        f \in Functions, missing \in {1, 2}}

\* import forms of the func forms
ImportForms ==
    {[text |-> <<"(", "i", "m", "p", "o", "r", "t", " ", "\"", "c", "o", "n", "s", "o", "l", "e", "\"", " ", "\"", "l", "o", "g", "\"", " ">> \o FunctionText(f, sep) \o <<")">>,
      function |-> f, sep |-> sep] :
        f \in Functions, sep \in {<<" ">>, <<>>}}

\* variable instructions written part by part, well formed or not
VariableTexts ==
    {Concat(<<scope, instruction, space, index, after>>) :
        scope \in {<<"g", "l", "o", "b", "a", "l">>, <<"l", "o", "c", "a", "l">>, <<"g", "l", "o", "b", "a">>, <<"L", "o", "c", "a", "l">>},
        instruction \in {<<".", "g", "e", "t">>, <<".", "s", "e", "t">>, <<".", "t", "e", "e">>, <<".", "t", "e">>, <<>>},
        space \in {<<" ">>, <<>>},
        index \in {<<"0">>, <<"$", "i", "d", "x">>, <<"-", "1">>, <<"x">>, <<>>},
        after \in {<<>>, <<")">>}}

OpcodeTexts ==
    VariableTexts
    \cup {<<"c", "a", "l", "l", " ", "5">>, <<"c", "a", "l", "l", " ", "$", "l", "o", "g">>, <<"c", "a", "l", "l">>, <<"c", "a", "l", "l", " ", "x">>, <<"u", "n", "r", "e", "a", "c", "h", "a", "b", "l", "e">>,
          <<"u", "n", "r", "e", "a", "c", "h", "a", "b", "l", "e", ")">>, <<"i", "3", "2", ".", "c", "o", "n", "s", "t", " ", "5">>, <<"i", "6", "4", ".", "c", "o", "n", "s", "t", " ", "-", "5">>, <<"f", "6", "4", ".", "c", "o", "n", "s", "t", " ", "5", ".", "5">>,
          <<"f", "3", "2", ".", "c", "o", "n", "s", "t", " ", "2", "E", "-", "3">>, <<"f", "6", "4", ".", "c", "o", "n", "s", "t", " ", "2", "e", "+", "5">>, <<"i", "3", "2", ".", "c", "o", "n", "s", "t">>, <<"i", "3", "2", ".", "c", "o", "n", "s", " ", "5">>,
          <<"i", "1", "6", ".", "c", "o", "n", "s", "t", " ", "5">>, <<"f", "3", "2", ".", "c", "o", "n", "s", "t", " ", "-", "2", ".", "5">>, <<"i", "3", "2", ".", "c", "o", "n", "s", "t", " ", "2", "1", "4", "7", "4", "8", "3", "6", "4", "8">>,
          <<"f", "6", "4", ".", "c", "o", "n", "s", "t", " ", "1", "e">>, <<>>}

\* opcodes with their texts
OpcodeSamples ==
    {[text |-> <<"c", "a", "l", "l", " ", "5">>,
      opcode |-> [kind |-> "Call", payload |-> Numerical(IntBits(5, I64_BITS))]],
     [text |-> <<"c", "a", "l", "l", " ", "$", "l", "o", "g">>,
      opcode |-> [kind |-> "Call", payload |-> Identifier(<<"l", "o", "g">>)]],
     [text |-> <<"l", "o", "c", "a", "l", ".", "g", "e", "t", " ", "0">>,
      opcode |-> [kind |-> "VariableInstruction",
                  payload |-> [scope |-> "Local", instruction |-> "Get",
                               index |-> Numerical(IntBits(0, I64_BITS))]]],
     [text |-> <<"l", "o", "c", "a", "l", ".", "s", "e", "t", " ", "$", "i", "d", "x">>,
      opcode |-> [kind |-> "VariableInstruction",
                  payload |-> [scope |-> "Local", instruction |-> "Set",
                               index |-> Identifier(<<"i", "d", "x">>)]]],
     [text |-> <<"g", "l", "o", "b", "a", "l", ".", "g", "e", "t", " ", "$", "i", "d", "x">>,
      opcode |-> [kind |-> "VariableInstruction",
                  payload |-> [scope |-> "Global", instruction |-> "Get",
                               index |-> Identifier(<<"i", "d", "x">>)]]],
     [text |-> <<"l", "o", "c", "a", "l", ".", "t", "e", "e", " ", "0">>,
      opcode |-> [kind |-> "VariableInstruction",
                  payload |-> [scope |-> "Local", instruction |-> "Tee",
                               index |-> Numerical(IntBits(0, I64_BITS))]]],
     [text |-> <<"g", "l", "o", "b", "a", "l", ".", "s", "e", "t", " ", "0">>,
      opcode |-> [kind |-> "VariableInstruction",
                  payload |-> [scope |-> "Global", instruction |-> "Set",
                               index |-> Numerical(IntBits(0, I64_BITS))]]],
     [text |-> <<"i", "3", "2", ".", "c", "o", "n", "s", "t", " ", "5">>,
      opcode |-> [kind |-> "Constant",
                  payload |-> Constant(Int32(IntBits(5, I32_BITS)))]],
     [text |-> <<"i", "6", "4", ".", "c", "o", "n", "s", "t", " ", "-", "5">>,
      opcode |-> [kind |-> "Constant",
                  payload |-> Constant(Int64(IntBits(-5, I64_BITS)))]],
     [text |-> <<"u", "n", "r", "e", "a", "c", "h", "a", "b", "l", "e">>,
      opcode |-> [kind |-> "Unreachable", payload |-> <<>>]]}

\* instructions in plain form and in folded form with 0 .. MaxClauses
\* operands, whole or without the last character, with the Instruction
\* that the whole text spells; the operands are folded instructions
\* themselves, without operands or with one.  The texts of global.tee spell
\* no Instruction.
InstructionForms ==
    LET Operands ==
        {[text |-> <<"(">> \o o.text \o <<")">>,
          instruction |-> [opcode |-> o.opcode, arguments |-> <<>>]] :
            o \in OpcodeSamples}
        \cup
        {[text |-> <<"(">> \o o.text \o <<" ", "(">> \o p.text \o <<")", ")">>,
          instruction |->
            [opcode |-> o.opcode,
             arguments |-> <<[opcode |-> p.opcode, arguments |-> <<>>]>>]] :
            o \in {s \in OpcodeSamples : s.opcode.kind = "Call"},
            p \in {s \in OpcodeSamples : s.opcode.kind = "Constant"}}
    IN
    {[text |-> o.text, folded |-> FALSE, missing |-> 0,
      instruction |-> <<[opcode |-> o.opcode, arguments |-> <<>>]>>] :
        o \in OpcodeSamples}
    \cup
    {[text |-> Take(<<"(">> \o o.text \o Concat([i \in DOMAIN a |-> <<" ">> \o a[i].text]) \o <<")">>,
                    Len(o.text) + 2 - missing
                        + Len(Concat([i \in DOMAIN a |-> <<" ">> \o a[i].text]))),
      folded |-> TRUE, missing |-> missing,
      instruction |-> <<[opcode |-> o.opcode,
                         arguments |-> [i \in DOMAIN a |-> a[i].instruction]]>>] :
        o \in {s \in OpcodeSamples : s.opcode.kind # "Constant"},
        a \in Texts(Operands, MaxClauses), missing \in {0, 1}}
    \cup
    {[text |-> t, folded |-> Head(t) = "(", missing |-> 0, instruction |-> <<>>] :
        t \in {<<"g", "l", "o", "b", "a", "l", ".", "t", "e", "e", " ", "0">>, <<"g", "l", "o", "b", "a", "l", ".", "t", "e", "e", " ", "$", "i", "d", "x">>, <<"(", "g", "l", "o", "b", "a", "l", ".", "t", "e", "e", " ", "0", ")">>,
               <<"(", "g", "l", "o", "b", "a", "l", ".", "t", "e", "e", " ", "$", "i", "d", "x", " ", "(", "i", "3", "2", ".", "c", "o", "n", "s", "t", " ", "5", ")", ")">>, <<"g", "l", "o", "b", "a", "l", ".", "t", "e", "e">>}}

\* const instructions written part by part: the type tag, ".const",
\* whitespace and a literal, an integer in or out of the range of i32 and
\* of i64, or no integer
ConstForms ==
    {[text |-> t \o <<".", "c", "o", "n", "s", "t">> \o space \o literal, tag |-> t, literal |-> literal] :
        t \in {<<"i", "3", "2">>, <<"i", "6", "4">>, <<"f", "3", "2">>, <<"f", "6", "4">>},
        space \in {<<" ">>, <<"\n", " ">>},
        literal \in {<<"0">>, <<"5">>, <<"-", "5">>, <<"+", "5">>, <<"0", "0", "7">>, <<"-", "0">>,
                     <<"2", "1", "4", "7", "4", "8", "3", "6", "4", "7">>, <<"2", "1", "4", "7", "4", "8", "3", "6", "4", "8">>, <<"-", "2", "1", "4", "7", "4", "8", "3", "6", "4", "8">>,
                     <<"-", "2", "1", "4", "7", "4", "8", "3", "6", "4", "9">>, <<"4", "2", "9", "4", "9", "6", "7", "2", "9", "5">>, <<"4", "2", "9", "4", "9", "6", "7", "3", "0", "1">>,
                     <<"9", "2", "2", "3", "3", "7", "2", "0", "3", "6", "8", "5", "4", "7", "7", "5", "8", "0", "7">>, <<"9", "2", "2", "3", "3", "7", "2", "0", "3", "6", "8", "5", "4", "7", "7", "5", "8", "0", "8">>,
                     <<"-", "9", "2", "2", "3", "3", "7", "2", "0", "3", "6", "8", "5", "4", "7", "7", "5", "8", "0", "8">>, <<"-", "9", "2", "2", "3", "3", "7", "2", "0", "3", "6", "8", "5", "4", "7", "7", "5", "8", "0", "9">>,
                     <<"1", "8", "4", "4", "6", "7", "4", "4", "0", "7", "3", "7", "0", "9", "5", "5", "1", "6", "2", "1">>, <<>>, <<"-">>, <<"x">>, <<"$", "5">>}}

ParserInit ==
    /\ writer = VecSink
    /\ op = "new"
    /\ arg = <<>>
    /\ ret = None
    /\ base = 0

\* the state after a parse function returned r on input
Parsed(name, input, r) == Called(name, input, [writer |-> writer, ret |-> r])

ParseIdentifier ==
    /\ Fresh
    /\ \E input \in IdentifierTexts :
        Parsed("parse_identifier", input, parse_identifier(input))

ParseModule ==
    /\ Fresh
    /\ \E input \in ModuleTexts :
        Parsed("parse_module", input, parse_module(input))

ParseExport ==
    /\ Fresh
    /\ \E input \in ExportTexts :
        Parsed("parse_export", input, parse_export(input))

ParseFunction ==
    /\ Fresh
    /\ \E form \in FunctionForms :
        Parsed("parse_function", form, parse_function(form.text))

ParseFunctionImport ==
    /\ Fresh
    /\ \E form \in ImportForms :
        Parsed("parse_function_import", form, parse_function_import(form.text))

ParseVariableInstruction ==
    /\ Fresh
    /\ \E input \in VariableTexts :
        Parsed("parse_variable_instruction", input, parse_variable_instruction(input))

ParseOpcode ==
    /\ Fresh
    /\ \E input \in OpcodeTexts :
        Parsed("parse_opcode", input, parse_opcode(input))

ParseInstruction ==
    /\ Fresh
    /\ \E form \in InstructionForms :
        Parsed("parse_instruction", form, parse_instruction(form.text))

ParseConst ==
    /\ Fresh
    /\ \E form \in ConstForms :
        Parsed("parse_const", form, parse_const(form.text))

ParserNext ==
    \/ ParseIdentifier
    \/ ParseModule
    \/ ParseExport
    \/ ParseFunction
    \/ ParseFunctionImport
    \/ ParseVariableInstruction
    \/ ParseConst
    \/ ParseOpcode
    \/ ParseInstruction

ParserSpec == ParserInit /\ [][ParserNext]_vars

(***************************************************************************)
(* Reference encodings and decoders the properties are stated against.     *)
(***************************************************************************)
\* the bytes the last call wrote
Written == SubSeq(writer.data, base + 1, Len(writer.data))

\* the most bytes a w-bit value takes
MaxGroups(w) == (w + 6) \div 7

\* bit i of the w-bit two's complement value v, extended by its sign
SignExtBit(v, w, i) == IF i < w THEN v[i] ELSE v[w - 1]

\* bit i of the w-bit unsigned value v, extended by zeros
ZeroExtBit(v, w, i) == IF i < w THEN v[i] ELSE 0

\* v is representable in 7n bits of two's complement
FitsSigned(v, w, n) == \A j \in 7 * n - 1 .. w - 1 : v[j] = v[w - 1]

\* v is representable in 7n bits unsigned
FitsUnsigned(v, w, n) == \A j \in 7 * n .. w - 1 : v[j] = 0

Least(S) == CHOOSE n \in S : \A m \in S : n <= m

\* signed LEB128: the fewest 7-bit groups that hold v in two's complement,
\* least significant first, every byte but the last with bit 7 set
RefSignedLeb128(v, w) ==
    LET n == Least({k \in 1 .. MaxGroups(w) : FitsSigned(v, w, k)})
    IN  [k \in 1 .. n |->
            SignExtBit(v, w, 7 * k - 7) + 2 * SignExtBit(v, w, 7 * k - 6)
            + 4 * SignExtBit(v, w, 7 * k - 5) + 8 * SignExtBit(v, w, 7 * k - 4)
            + 16 * SignExtBit(v, w, 7 * k - 3) + 32 * SignExtBit(v, w, 7 * k - 2)
            + 64 * SignExtBit(v, w, 7 * k - 1) + (IF k < n THEN 128 ELSE 0)]

\* unsigned LEB128: the fewest 7-bit groups that hold v, at least one
RefUnsignedLeb128(v, w) ==
    LET n == Least({k \in 1 .. MaxGroups(w) : FitsUnsigned(v, w, k)})
    IN  [k \in 1 .. n |->
            ZeroExtBit(v, w, 7 * k - 7) + 2 * ZeroExtBit(v, w, 7 * k - 6)
            + 4 * ZeroExtBit(v, w, 7 * k - 5) + 8 * ZeroExtBit(v, w, 7 * k - 4)
            + 16 * ZeroExtBit(v, w, 7 * k - 3) + 32 * ZeroExtBit(v, w, 7 * k - 2)
            + 64 * ZeroExtBit(v, w, 7 * k - 1) + (IF k < n THEN 128 ELSE 0)]

Repeat(b, n) == [k \in 1 .. n |-> b]

I64Min == OneHot(I64_BITS - 1, I64_BITS)
I64Max == BitNot(I64Min)
U64Max == BitNot(LowOnes(0, I64_BITS))

DecodeFailed == [ok |-> FALSE, value |-> <<>>, used |-> 0]

\* the standard signed decoder: the low 7 bits of each byte are or-ed in at
\* shift 0, 7, 14, ... up to the first byte with bit 7 clear, and bit 6 of
\* that byte is extended to the top.  It reports how many bytes it read.
RECURSIVE SignedDecodeLoop(_, _, _, _)
SignedDecodeLoop(bytes, pos, result, shift) ==
    IF pos > Len(bytes) THEN DecodeFailed
    ELSE
        LET byte == bytes[pos]
            overflow == shift = 63 /\ byte # 0 /\ byte # 127
            merged == [i \in 0 .. I64_BITS - 1 |->
                        IF i >= shift /\ i < shift + 7
                        THEN NatBit(byte, i - shift) ELSE result[i]]
            extended == [i \in 0 .. I64_BITS - 1 |->
                        IF i >= shift + 7 THEN NatBit(byte, 6) ELSE merged[i]]
        IN  IF overflow THEN DecodeFailed
            ELSE IF byte < 128
            THEN [ok |-> TRUE, value |-> extended, used |-> pos]
            ELSE SignedDecodeLoop(bytes, pos + 1, merged, shift + 7)

DecodeSigned(bytes) == SignedDecodeLoop(bytes, 1, IntBits(0, I64_BITS), 0)

\* the standard unsigned decoder
RECURSIVE UnsignedDecodeLoop(_, _, _, _)
UnsignedDecodeLoop(bytes, pos, result, shift) ==
    IF pos > Len(bytes) THEN DecodeFailed
    ELSE
        LET byte == bytes[pos]
            overflow == shift = 63 /\ byte # 0 /\ byte # 1
            merged == [i \in 0 .. I64_BITS - 1 |->
                        IF i >= shift /\ i < shift + 7
                        THEN NatBit(byte, i - shift) ELSE result[i]]
        IN  IF overflow THEN DecodeFailed
            ELSE IF byte < 128
            THEN [ok |-> TRUE, value |-> merged, used |-> pos]
            ELSE UnsignedDecodeLoop(bytes, pos + 1, merged, shift + 7)

DecodeUnsigned(bytes) == UnsignedDecodeLoop(bytes, 1, IntBits(0, I64_BITS), 0)

(***************************************************************************)
(* The properties.                                                         *)
(***************************************************************************)
SignedDone == op = "emit_signed_leb128" /\ ret.tag = "Ok"
UnsignedDone == op = "emit_unsigned_leb128" /\ ret.tag = "Ok"

\* C1: a successful emission of a SignedLeb128 writes exactly the reference
\* signed LEB128 bytes of its value; 128 gives 80 01, -85092 gives 9C E7 7A,
\* i64::MIN nine 80 and 7F, i64::MAX nine FF and 00, and 0 gives 00.
C1_SignedMatchesReference ==
    SignedDone =>
        /\ Written = RefSignedLeb128(arg, I64_BITS)
        /\ arg = IntBits(128, I64_BITS) => Written = <<128, 1>>
        /\ arg = IntBits(-85092, I64_BITS) => Written = <<156, 231, 122>>
        /\ arg = I64Min => Written = Repeat(128, 9) \o <<127>>
        /\ arg = I64Max => Written = Repeat(255, 9) \o <<0>>
        /\ arg = IntBits(0, I64_BITS) => Written = <<0>>

C1_Witness ==
    /\ SignedDone
    /\ arg = I64Min
    /\ Len(Written) = 10

\* C2: a successful emission of an UnsignedLeb128 writes exactly the
\* reference unsigned LEB128 bytes of its value; 0 gives the single byte 00
\* and u64::MAX nine FF and 01.
C2_UnsignedMatchesReference ==
    UnsignedDone =>
        /\ Written = RefUnsignedLeb128(arg, I64_BITS)
        /\ arg = IntBits(0, I64_BITS) => Written = <<0>>
        /\ arg = U64Max => Written = Repeat(255, 9) \o <<1>>

C2_Witness ==
    /\ UnsignedDone
    /\ arg = U64Max
    /\ Len(Written) = 10

\* C3: the standard signed decoder reads the bytes of a successful signed
\* emission back to the value emitted, consuming all of them, and the
\* standard unsigned decoder does so for an unsigned emission.
C3_RoundTrip ==
    /\ SignedDone =>
        DecodeSigned(Written) = [ok |-> TRUE, value |-> arg, used |-> Len(Written)]
    /\ UnsignedDone =>
        DecodeUnsigned(Written) = [ok |-> TRUE, value |-> arg, used |-> Len(Written)]

C3_Witness ==
    /\ SignedDone
    /\ arg = IntBits(-1, I64_BITS)
    /\ DecodeSigned(Written).value = arg

\* C4: every successful emit operation returns the number of bytes the
\* call wrote to the sink; emitting a Constant returns 1 plus the length of
\* its operand encoding.
C4_CountIsBytesWritten ==
    ret.tag = "Ok" =>
        /\ ret.n = Len(Written)
        /\ op = "emit_constant" =>
            ret.n = 1 + Len(emit_numerical_value(VecSink, arg.value).writer.data)

IsInteger(value) == value.type \in {"Int32", "Int64"}

Width(value) == IF value.type \in {"Int32", "Float32"} THEN I32_BITS ELSE I64_BITS

ConstantDone == op = "emit_constant" /\ ret.tag = "Ok"

\* C5: a successful emission of an integer Constant writes the opcode 41
\* (Int32) or 42 (Int64), then the signed LEB128 encoding of the value, and
\* nothing else; Int32 5 gives 41 05, Int32 128 gives 41 80 01 and
\* Int64 505 gives 42 F9 03.
C5_IntegerConstantBytes ==
    (ConstantDone /\ IsInteger(arg.value)) =>
        /\ Written =
            <<IF arg.value.type = "Int32" THEN 65 ELSE 66>>
            \o RefSignedLeb128(arg.value.bits, Width(arg.value))
        /\ arg.value = Int32(IntBits(5, I32_BITS)) => Written = <<65, 5>>
        /\ arg.value = Int32(IntBits(128, I32_BITS)) => Written = <<65, 128, 1>>
        /\ arg.value = Int64(IntBits(505, I64_BITS)) => Written = <<66, 249, 3>>

C5_Witness ==
    /\ ConstantDone
    /\ arg.value = Int32(IntBits(-85092, I32_BITS))
    /\ Written = <<65, 156, 231, 122>>

\* C6: a successful emission of a floating Constant writes the opcode 43
\* (Float32) or 44 (Float64), then exactly 4 or 8 bytes: the value's bit
\* pattern, least significant byte first, whatever the value;
\* Float32 5.0 gives 43 00 00 A0 40 and Float64 25.5 gives
\* 44 00 00 00 00 00 80 39 40.
C6_FloatConstantBytes ==
    (ConstantDone /\ ~IsInteger(arg.value)) =>
        /\ Len(Written) = 1 + Width(arg.value) \div 8
        /\ Written[1] = IF arg.value.type = "Float32" THEN 67 ELSE 68
        /\ \A i \in 0 .. Width(arg.value) - 1 :
            NatBit(Written[2 + i \div 8], i % 8) = arg.value.bits[i]
        /\ arg.value = Float32(F32Lit(0, 5, 0)) => Written = <<67, 0, 0, 160, 64>>
        /\ arg.value = Float64(F64Lit(0, 51, -1)) =>
            Written = <<68, 0, 0, 0, 0, 0, 128, 57, 64>>

C6_Witness ==
    /\ ConstantDone
    /\ arg.value = Float64(F64Lit(0, 51, -1))
    /\ Len(Written) = 9

IsPrefix(s, t) == Len(s) <= Len(t) /\ s = SubSeq(t, 1, Len(s))

\* C7: emit_program on a fresh sink writes, when it succeeds, exactly the
\* 8 bytes 00 61 73 6D 31 30 30 30 whatever the Program holds, and whether
\* it succeeds or not the sink holds a prefix of them: the magic comes
\* before the version and nothing follows.
C7_ProgramPreamble ==
    op = "emit_program" =>
        /\ base = 0
        /\ IsPrefix(writer.data, <<0, 97, 115, 109, 49, 48, 48, 48>>)
        /\ ret.tag = "OkUnit" => Len(writer.data) = 8

C7_Witness ==
    /\ op = "emit_program"
    /\ ret.tag = "OkUnit"
    /\ Len(arg.modules) > 0
    /\ Len(writer.data) = 8

\* the WebAssembly opcodes of the numeric instructions: the integer
\* operations follow each other from i32.add = 6A and i64.add = 7C, the
\* floating ones from f32.add = 92 and f64.add = A0
IntegerOrder ==
    <<"Addition", "Subtraction", "Multiplication", "SignedDivision",
      "UnsignedDisivion", "SignedRemainder", "UnsignedRemainder">>

FloatOrder == <<"Addition", "Subtraction", "Multiplication", "FloatDivision">>

Position(seq, x) == CHOOSE k \in 1 .. Len(seq) : seq[k] = x

Occurs(seq, x) == \E k \in 1 .. Len(seq) : seq[k] = x

WasmArithmetic(o) ==
    LET order == IF o.type_ \in {"Int32", "Int64"} THEN IntegerOrder ELSE FloatOrder
        first == CASE o.type_ = "Int32" -> 106
                   [] o.type_ = "Int64" -> 124
                   [] o.type_ = "Float32" -> 146
                   [] o.type_ = "Float64" -> 160
    IN  IF Occurs(order, o.instr)
        THEN Byte(first + Position(order, o.instr) - 1)
        ELSE Panic

\* C8: resolving the opcode of an ArithmeticOperation gives the WebAssembly
\* byte on each supported (type, operation) pair and aborts on the others:
\* FloatDivision on the integer types, the signed and unsigned divisions and
\* remainders on the floating types.  Emitting the operation writes that
\* byte alone, and nothing when the resolution aborts.
C8_ArithmeticOpcodes ==
    /\ (op = "to_opcode" /\ arg.kind = "Arithmetic") =>
        ret = WasmArithmetic(arg.payload)
    /\ (op = "emit_arithmetic_operation" /\ ret.tag # "Err") =>
        /\ ret.tag = "Panic" <=> WasmArithmetic(arg) = Panic
        /\ ret.tag = "Panic" => Written = <<>>
        /\ ret.tag = "Ok" => Written = <<WasmArithmetic(arg).n>>

C8_Witness ==
    /\ op = "to_opcode"
    /\ arg.kind = "Arithmetic"
    /\ arg.payload = [type_ |-> "Float64", instr |-> "SignedRemainder"]
    /\ ret = Panic

\* C9: resolving the opcode of a ComparisonOperation returns a byte, and
\* does not abort, on each of the 24 (type, kind) pairs.
C9_ComparisonTotal ==
    (op = "to_opcode" /\ arg.kind = "Comparison") => ret.tag = "Byte"

WasmEquality(o) ==
    CASE o.type_ = "Int32" /\ o.instr = "Equal" -> 70
      [] o.type_ = "Int32" /\ o.instr = "NotEqual" -> 71
      [] o.type_ = "Int64" /\ o.instr = "Equal" -> 81
      [] o.type_ = "Int64" /\ o.instr = "NotEqual" -> 82
      [] o.type_ = "Float32" /\ o.instr = "Equal" -> 91
      [] o.type_ = "Float32" /\ o.instr = "NotEqual" -> 92
      [] o.type_ = "Float64" /\ o.instr = "Equal" -> 97
      [] o.type_ = "Float64" /\ o.instr = "NotEqual" -> 98

\* C10: for Equal and NotEqual the byte resolved is the WebAssembly opcode:
\* i32.eq = 46, i32.ne = 47, i64.eq = 51, i64.ne = 52, f32.eq = 5B,
\* f32.ne = 5C, f64.eq = 61, f64.ne = 62.
C10_EqualityOpcodes ==
    (/\ op = "to_opcode"
     /\ arg.kind = "Comparison"
     /\ arg.payload.instr \in {"Equal", "NotEqual"}) =>
        ret = Byte(WasmEquality(arg.payload))

\* the opcode table of the WebAssembly variable instructions
WasmVariable(scope, instruction) ==
    CASE scope = "Local" /\ instruction = "Get" -> 32
      [] scope = "Local" /\ instruction = "Set" -> 33
      [] scope = "Local" /\ instruction = "Tee" -> 34
      [] scope = "Global" /\ instruction = "Get" -> 35
      [] scope = "Global" /\ instruction = "Set" -> 36

\* C11: the opcode of a variable operation is fixed by its scope and its
\* instruction kind alone, whatever the index: local.get 0x20, local.set
\* 0x21, local.tee 0x22, global.get 0x23, global.set 0x24; for (Global, Tee)
\* the conversion aborts and yields no byte
C11_VariableOpcodes ==
    (op = "to_opcode" /\ arg.kind = "VariableInstruction") =>
        IF arg.payload.scope = "Global" /\ arg.payload.instruction = "Tee"
        THEN ret = Panic
        ELSE ret = Byte(WasmVariable(arg.payload.scope, arg.payload.instruction))

C11_Witness ==
    /\ op = "to_opcode"
    /\ arg.kind = "VariableInstruction"
    /\ arg.payload.scope = "Global"
    /\ arg.payload.instruction = "Tee"
    /\ arg.payload.index.kind = "Identifier"
    /\ ret = Panic

(***************************************************************************)
(* The parser's properties.                                                *)
(***************************************************************************)
AllSpace(t, from, to) == \A i \in from .. to : t[i] \in {" ", "\t", "\r", "\n"}

\* p is: whitespace, `(`, whitespace, `module`, whitespace, `)`
IsModuleForm(p) ==
    \E a, b \in 0 .. Len(p) - 8 :
        LET c == Len(p) - a - b - 8
        IN  /\ c >= 0
            /\ AllSpace(p, 1, a)
            /\ p[a + 1] = "("
            /\ AllSpace(p, a + 2, a + b + 1)
            /\ SubSeq(p, a + b + 2, a + b + 7) = <<"m", "o", "d", "u", "l", "e">>
            /\ AllSpace(p, a + b + 8, a + b + c + 7)
            /\ p[a + b + c + 8] = ")"

\* C13: parse_module succeeds exactly on a text that begins with optional
\* whitespace, `(`, optional whitespace, `module`, optional whitespace, `)`,
\* and returns the text after that `)`; on every other text it fails
C13_ModuleExact ==
    op = "parse_module" =>
        IF \E n \in 1 .. Len(arg) : IsModuleForm(Take(arg, n))
        THEN /\ ret.kind = "Ok"
             /\ ret.value = "Module"
             /\ \E n \in 1 .. Len(arg) :
                   IsModuleForm(Take(arg, n)) /\ ret.rest = Drop(arg, n)
        ELSE ret.kind \in {"Error", "Failure"}

C13_Witness ==
    /\ op = "parse_module"
    /\ arg = <<"\n", " ", " ", "(", "m", "o", "d", "u", "l", "e", ")">>
    /\ ret.kind = "Ok"
    /\ ret.rest = <<>>

\* the ways to read t as `(`, whitespace, `export`, whitespace, a string
\* of characters other than `"` and `\` between two `"`, whitespace, `)`
\* and a rest: the string and the rest of each
ExportForms(t) ==
    IF Len(t) = 0 \/ t[1] # "(" THEN {}
    ELSE UNION {
        IF ~(/\ a + 7 <= Len(t)
             /\ AllSpace(t, 2, a + 1)
             /\ SubSeq(t, a + 2, a + 7) = <<"e", "x", "p", "o", "r", "t">>) THEN {}
        ELSE UNION {
            IF ~(/\ a + b + 8 <= Len(t)
                 /\ AllSpace(t, a + 8, a + b + 7)
                 /\ t[a + b + 8] = "\"") THEN {}
            ELSE UNION {
                IF ~(/\ a + b + n + 9 <= Len(t)
                     /\ \A i \in a + b + 9 .. a + b + n + 8 : t[i] \notin {"\"", "\\"}
                     /\ t[a + b + n + 9] = "\"") THEN {}
                ELSE {[value |-> SubSeq(t, a + b + 9, a + b + n + 8),
                       rest |-> Drop(t, a + b + n + c + 10)] :
                        c \in {c \in 0 .. Len(t) :
                                /\ a + b + n + c + 10 <= Len(t)
                                /\ AllSpace(t, a + b + n + 10, a + b + n + c + 9)
                                /\ t[a + b + n + c + 10] = ")"}}
                : n \in 0 .. Len(t)}
            : b \in 0 .. Len(t)}
        : a \in 0 .. Len(t)}

\* C16: parse_export accepts `(`, `export`, a double-quoted string and `)`,
\* with optional whitespace between them, and returns the text between the
\* quotes, which may be empty; a text without a backslash that is not of
\* this form (no name, no closing quote, a parenthesis missing, another
\* keyword, a quote after the string) is rejected
C16_ExportForm ==
    op = "parse_export" =>
        IF ExportForms(arg) # {}
        THEN /\ ret.kind = "Ok"
             /\ [value |-> ret.value, rest |-> ret.rest] \in ExportForms(arg)
        ELSE (\A i \in 1 .. Len(arg) : arg[i] # "\\") =>
                ret.kind \in {"Error", "Failure"}

C16_Witness ==
    /\ op = "parse_export"
    /\ arg = <<"(", "e", "x", "p", "o", "r", "t", "\"", "\"", ")">>
    /\ ret.kind = "Ok"
    /\ ret.value = <<>>
    /\ ret.rest = <<>>

\* the identifier characters: ASCII letters and digits and the punctuation
IdentifierCharacters ==
    Digit \cup LowerCase \cup UpperCase \cup
        {"!", "#", "$", "%", "&", "´", "*", "+", "-", ".", "/", ":", "<", "=",
         ">", "?", "@", "\\", "^", "_", "U+0060", "|", "~"}

VariableOperationTexts ==
    {[text |-> <<"l", "o", "c", "a", "l", ".", "g", "e", "t">>, scope |-> "Local", instruction |-> "Get"],
     [text |-> <<"l", "o", "c", "a", "l", ".", "s", "e", "t">>, scope |-> "Local", instruction |-> "Set"],
     [text |-> <<"l", "o", "c", "a", "l", ".", "t", "e", "e">>, scope |-> "Local", instruction |-> "Tee"],
     [text |-> <<"g", "l", "o", "b", "a", "l", ".", "g", "e", "t">>, scope |-> "Global", instruction |-> "Get"],
     [text |-> <<"g", "l", "o", "b", "a", "l", ".", "s", "e", "t">>, scope |-> "Global", instruction |-> "Set"]}
IndexTexts ==
    {[text |-> <<"0">>, index |-> Numerical(IntBits(0, I64_BITS))],
     [text |-> <<"-", "1">>, index |-> Numerical(IntBits(-1, I64_BITS))],
     [text |-> <<"$", "i", "d", "x">>, index |-> Identifier(<<"i", "d", "x">>)]}

\* the Opcode that v followed by the index x spells
VariableOpcode(v, x) ==
    [kind |-> "VariableInstruction",
     payload |-> [scope |-> v.scope, instruction |-> v.instruction,
                  index |-> x.index]]

IsGlobalTee(opcode) ==
    /\ opcode.kind = "VariableInstruction"
    /\ opcode.payload.scope = "Global"
    /\ opcode.payload.instruction = "Tee"

\* C12: no successful result of parse_variable_instruction, parse_opcode or
\* parse_instruction holds a variable operation with scope Global and
\* instruction Tee; a text that starts with "global.tee" is rejected, and
\* local.get, local.set, local.tee, global.get and global.set followed by an
\* index are accepted with the scope, the instruction and the index written.
C12_NoGlobalTee ==
    /\ op \in {"parse_variable_instruction", "parse_opcode"} =>
        /\ ret.kind = "Ok" => ~IsGlobalTee(ret.value)
        /\ IsPrefix(<<"g", "l", "o", "b", "a", "l", ".", "t", "e", "e">>, arg) => ret.kind \notin {"Ok", "Panic"}
        /\ \A v \in VariableOperationTexts, x \in IndexTexts :
           \A space \in {<<>>, <<" ">>}, after \in {<<>>, <<")">>} :
                arg = v.text \o space \o x.text \o after
                    => ret = IOk(after, VariableOpcode(v, x))
    /\ op = "parse_instruction" =>
        /\ ret.kind = "Ok" => ~IsGlobalTee(ret.value.opcode)
        /\ (IsPrefix(<<"g", "l", "o", "b", "a", "l", ".", "t", "e", "e">>, arg.text) \/ IsPrefix(<<"(", "g", "l", "o", "b", "a", "l", ".", "t", "e", "e">>, arg.text))
                => ret.kind \notin {"Ok", "Panic"}
        /\ \A v \in VariableOperationTexts, x \in IndexTexts :
                arg.text \in {v.text \o <<" ">> \o x.text,
                              <<"(">> \o v.text \o <<" ">> \o x.text \o <<")">>}
                    => ret = IOk(<<>>, [opcode |-> VariableOpcode(v, x),
                                        arguments |-> <<>>])

C12_Witness ==
    /\ op = "parse_opcode"
    /\ arg = <<"g", "l", "o", "b", "a", "l", ".", "t", "e", "e", " ", "0">>
    /\ ret.kind = "Error"

\* C14: parse_function on a func form with an optional identifier followed
\* by parameter clauses and then local clauses, and without export clauses,
\* returns with empty remainder the Function whose identifier is the text
\* after '$' or absent, whose parameters and locals are the clauses in
\* source order, each with its optional identifier and its type, and whose
\* export list is empty.
C14_FunctionForm ==
    (/\ op = "parse_function"
     /\ arg.missing = 0
     /\ arg.function.exports = <<>>)
        => /\ ret = IOk(<<>>, arg.function)
           /\ ret.value.exports = <<>>

C14_Witness ==
    /\ op = "parse_function"
    /\ arg.text = <<"(", "f", "u", "n", "c", " ", "$", "a", "d", "d", " ", "(", "p", "a", "r", "a", "m", " ", "$", "n", "u", "m", "b", "e", "r", " ", "f", "6", "4", ")", " ", "(", "p", "a", "r", "a", "m", " ", "i", "6", "4", ")", " ", "(", "l", "o", "c", "a", "l", " ", "$", "l", "1", " ", "i", "3", "2", ")", " ", "(", "l", "o", "c", "a", "l", " ", "f", "3", "2", ")", ")">>
    /\ ret.kind = "Ok"
    /\ ret.rest = <<>>
    /\ ret.value.identifier = <<<<"a", "d", "d">>>>
    /\ ret.value.parameters
        = <<[identifier |-> <<<<"n", "u", "m", "b", "e", "r">>>>, type_ |-> TypeNumerical("Float64")],
            [identifier |-> <<>>, type_ |-> TypeNumerical("Int64")]>>
    /\ ret.value.local_variables
        = <<[identifier |-> <<<<"l", "1">>>>, type_ |-> TypeNumerical("Int32")],
            [identifier |-> <<>>, type_ |-> TypeNumerical("Float32")]>>

\* C15: parse_function accepts a func form whose export clauses are written
\* with whitespace before each of them, and returns a Function whose export
\* list holds the export names in source order.
C15_ExportsAfterWhitespace ==
    (/\ op = "parse_function"
     /\ arg.missing = 0
     /\ arg.function.exports # <<>>
     /\ arg.sep # <<>>)
        => /\ ret.kind = "Ok"
           /\ ret.value.exports = arg.function.exports

\* the text has no closing parenthesis where one is due: it is at its end,
\* whitespace skipped, or another character stands there
NotClosed(rest) ==
    \/ multispace0(rest).rest = <<>>
    \/ Head(multispace0(rest).rest) # ")"

\* C17: once '(' and the inner rule of a parenthesis-enclosed rule have
\* matched, a missing ')' is a Failure and not an Error: the alternation of
\* parse_instruction returns it and tries nothing else, so "(call 5" fails
\* as a whole, and the repetitions of parse_function return the Failure of
\* an unclosed clause instead of ending successfully.
C17_MissingClosingFails ==
    /\ (/\ op = "parse_instruction"
        /\ Head(arg.text) = "("
        /\ parse_instruction_with_arguments(Inside(arg.text)).kind = "Ok"
        /\ NotClosed(parse_instruction_with_arguments(Inside(arg.text)).rest))
            => /\ ret.kind = "Failure"
               /\ ret.errors[Len(ret.errors)].what = "closing parenthesis"
    /\ (op = "parse_function" /\ arg.missing = 1) => ret.kind = "Failure"
    /\ (/\ op = "parse_function"
        /\ arg.missing = 2
        /\ arg.function.exports = <<>>
        /\ arg.function.parameters \o arg.function.local_variables # <<>>)
            => /\ ret.kind = "Failure"
               /\ ret.errors = <<[at |-> 0, what |-> "Char"],
                                 [at |-> 0, what |-> "closing parenthesis"],
                                 [at |-> Len(arg.text) - 1, what |-> "function"]>>
    /\ (op = "parse_export" /\ arg = <<"(", "e", "x", "p", "o", "r", "t", " ", "\"", "v", "a", "l", "i", "d", "\"">>) => ret.kind = "Failure"
    /\ (op = "parse_module" /\ arg = <<"(", "m", "o", "d", "u", "l", "e">>) => ret.kind = "Failure"

C17_Witness ==
    /\ op = "parse_instruction"
    /\ arg.text = <<"(", "c", "a", "l", "l", " ", "5">>
    /\ ret.kind = "Failure"

\* C18: parse_instruction accepts the folded form '(' opcode instruction* ')'
\* whose operands are instructions of any opcode, plain or folded, nested to
\* any depth, and returns an Instruction with that opcode and one argument
\* per operand, in source order; the plain form yields an Instruction with
\* an empty argument list.
C18_FoldedOperands ==
    (/\ op = "parse_instruction"
     /\ arg.missing = 0
     /\ arg.instruction # <<>>)
        => /\ ret.kind = "Ok"
           /\ ret.rest = <<>>
           /\ ret.value.opcode = arg.instruction[1].opcode
           /\ Len(ret.value.arguments) = Len(arg.instruction[1].arguments)
           /\ ~arg.folded => ret.value.arguments = <<>>

\* the func signature parse_function reads in the import form of the call
ImportSignature == parse_function(FunctionText(arg.function, arg.sep))

\* C19: parse_function_import returns a FunctionImport, with the namespace,
\* the name and the signature read, only when the parsed signature has no
\* export and no local; when the parsed signature has an export or a local
\* the call aborts, and returns neither a FunctionImport nor a parse error.
C19_ImportSignature ==
    op = "parse_function_import" =>
        /\ ret.kind = "Ok" =>
            /\ ret.value.signature.exports = <<>>
            /\ ret.value.signature.local_variables = <<>>
        /\ (/\ ImportSignature.kind = "Ok"
            /\ ImportSignature.value.exports = <<>>
            /\ ImportSignature.value.local_variables = <<>>)
                => ret = IOk(<<>>, [namespace |-> <<"c", "o", "n", "s", "o", "l", "e">>,
                                    fn_name |-> <<"l", "o", "g">>,
                                    signature |-> ImportSignature.value])
        /\ (/\ ImportSignature.kind = "Ok"
            /\ \/ ImportSignature.value.exports # <<>>
               \/ ImportSignature.value.local_variables # <<>>)
                => ret = IPanic

C19_Witness ==
    /\ op = "parse_function_import"
    /\ arg.text = <<"(", "i", "m", "p", "o", "r", "t", " ", "\"", "c", "o", "n", "s", "o", "l", "e", "\"", " ", "\"", "l", "o", "g", "\"", " ", "(", "f", "u", "n", "c", " ", "$", "a", "d", "d", " ", "(", "p", "a", "r", "a", "m", " ", "i", "3", "2", ")", " ", "(", "l", "o", "c", "a", "l", " ", "f", "3", "2", ")", ")", ")">>
    /\ ret.kind = "Panic"

RECURSIVE SumTo(_, _)
\* the sum of the first k numbers of s
SumTo(s, k) == IF k = 0 THEN 0 ELSE SumTo(s, k - 1) + s[k]

\* the lengths of the write_all calls that emitting value takes: one call
\* per LEB128 byte of an integer, one call for the bytes of a float
ValueWrites(value) ==
    CASE value.type = "Int32" -> Repeat(1, Len(RefSignedLeb128(value.bits, I32_BITS)))
      [] value.type = "Int64" -> Repeat(1, Len(RefSignedLeb128(value.bits, I64_BITS)))
      [] value.type = "Float32" -> <<4>>
      [] value.type = "Float64" -> <<8>>

\* the lengths of the write_all calls of the operation of the state, in
\* order, when no call fails
OperationWrites ==
    CASE op = "emit_program" -> <<4, 4>>
      [] op = "emit_signed_leb128" -> Repeat(1, Len(RefSignedLeb128(arg, I64_BITS)))
      [] op = "emit_unsigned_leb128" -> Repeat(1, Len(RefUnsignedLeb128(arg, I64_BITS)))
      [] op = "emit_numerical_value" -> ValueWrites(arg)
      [] op = "emit_constant" -> <<1>> \o ValueWrites(arg.value)
      [] op \in {"emit_byte", "emit_unreachable", "emit_arithmetic_operation"} -> <<1>>

\* C21: an emit operation whose write to the sink fails returns the error
\* and calls the sink no more: the failed call is the last one, it is the
\* first call whose bytes did not fit, and no call is made twice.
\* emit_program does not write the version after a failed magic write, a
\* Constant is not written after its failed opcode, and a LEB128 emission
\* stops at the first byte that failed.
C21_ErrorStopsEmission ==
    /\ ret.tag = "Err" =>
        /\ \E k \in 1 .. Len(OperationWrites) :
            /\ writer.writes = k
            /\ SumTo(OperationWrites, k - 1) <= Len(writer.data)
            /\ Len(writer.data) < SumTo(OperationWrites, k)
        /\ op = "emit_program" /\ Len(writer.data) < 4
            => /\ writer.writes = 1
               /\ IsPrefix(writer.data, <<0, 97, 115, 109>>)
        /\ op = "emit_constant" /\ writer.data = <<>> => writer.writes = 1
        /\ op = "emit_signed_leb128"
            => /\ writer.writes = Len(writer.data) + 1
               /\ IsPrefix(writer.data, RefSignedLeb128(arg, I64_BITS))
        /\ op = "emit_unsigned_leb128"
            => /\ writer.writes = Len(writer.data) + 1
               /\ IsPrefix(writer.data, RefUnsignedLeb128(arg, I64_BITS))
    /\ ret.tag \in {"Ok", "OkUnit"} => writer.writes = Len(OperationWrites)

C21_Witness ==
    /\ op = "emit_constant"
    /\ ret.tag = "Err"
    /\ writer.data = <<>>
    /\ writer.writes = 1

\* decimal integers with their values as i32 and as i64, where they are in
\* the range of the type: 2^31 - 1, 2^31, -2^31, -2^31 - 1, 2^32 - 1,
\* 2^32 + 5, 2^63 - 1, 2^63, -2^63, -2^63 - 1 and 2^64 + 5 among them
IntegerLiterals ==
    {[literal |-> <<"0">>, int32 |-> <<IntBits(0, I32_BITS)>>, int64 |-> <<IntBits(0, I64_BITS)>>],
     [literal |-> <<"5">>, int32 |-> <<IntBits(5, I32_BITS)>>, int64 |-> <<IntBits(5, I64_BITS)>>],
     [literal |-> <<"-", "5">>, int32 |-> <<IntBits(-5, I32_BITS)>>, int64 |-> <<IntBits(-5, I64_BITS)>>],
     [literal |-> <<"+", "5">>, int32 |-> <<IntBits(5, I32_BITS)>>, int64 |-> <<IntBits(5, I64_BITS)>>],
     [literal |-> <<"0", "0", "7">>, int32 |-> <<IntBits(7, I32_BITS)>>, int64 |-> <<IntBits(7, I64_BITS)>>],
     [literal |-> <<"-", "0">>, int32 |-> <<IntBits(0, I32_BITS)>>, int64 |-> <<IntBits(0, I64_BITS)>>],
     [literal |-> <<"2", "1", "4", "7", "4", "8", "3", "6", "4", "7">>, int32 |-> <<LowOnes(31, I32_BITS)>>, int64 |-> <<LowOnes(31, I64_BITS)>>],
     [literal |-> <<"2", "1", "4", "7", "4", "8", "3", "6", "4", "8">>, int32 |-> <<>>, int64 |-> <<OneHot(31, I64_BITS)>>],
     [literal |-> <<"-", "2", "1", "4", "7", "4", "8", "3", "6", "4", "8">>, int32 |-> <<OneHot(31, I32_BITS)>>,
      int64 |-> <<BitNot(LowOnes(31, I64_BITS))>>],
     [literal |-> <<"-", "2", "1", "4", "7", "4", "8", "3", "6", "4", "9">>, int32 |-> <<>>,
      int64 |-> <<BitNot(OneHot(31, I64_BITS))>>],
     [literal |-> <<"4", "2", "9", "4", "9", "6", "7", "2", "9", "5">>, int32 |-> <<>>, int64 |-> <<LowOnes(32, I64_BITS)>>],
     [literal |-> <<"4", "2", "9", "4", "9", "6", "7", "3", "0", "1">>, int32 |-> <<>>,
      int64 |-> <<BitOr(OneHot(32, I64_BITS), IntBits(5, I64_BITS))>>],
     [literal |-> <<"9", "2", "2", "3", "3", "7", "2", "0", "3", "6", "8", "5", "4", "7", "7", "5", "8", "0", "7">>, int32 |-> <<>>, int64 |-> <<I64Max>>],
     [literal |-> <<"9", "2", "2", "3", "3", "7", "2", "0", "3", "6", "8", "5", "4", "7", "7", "5", "8", "0", "8">>, int32 |-> <<>>, int64 |-> <<>>],
     [literal |-> <<"-", "9", "2", "2", "3", "3", "7", "2", "0", "3", "6", "8", "5", "4", "7", "7", "5", "8", "0", "8">>, int32 |-> <<>>, int64 |-> <<I64Min>>],
     [literal |-> <<"-", "9", "2", "2", "3", "3", "7", "2", "0", "3", "6", "8", "5", "4", "7", "7", "5", "8", "0", "9">>, int32 |-> <<>>, int64 |-> <<>>],
     [literal |-> <<"1", "8", "4", "4", "6", "7", "4", "4", "0", "7", "3", "7", "0", "9", "5", "5", "1", "6", "2", "1">>, int32 |-> <<>>, int64 |-> <<>>],
     [literal |-> <<>>, int32 |-> <<>>, int64 |-> <<>>],
     [literal |-> <<"-">>, int32 |-> <<>>, int64 |-> <<>>],
     [literal |-> <<"x">>, int32 |-> <<>>, int64 |-> <<>>],
     [literal |-> <<"$", "5">>, int32 |-> <<>>, int64 |-> <<>>]}

\* the NumericalType a type tag names
TagType(t) ==
    CASE t = <<"i", "3", "2">> -> "Int32" [] t = <<"i", "6", "4">> -> "Int64"
      [] t = <<"f", "3", "2">> -> "Float32" [] t = <<"f", "6", "4">> -> "Float64"

\* C22: parse_const reads the literal as the type tag says: 'i32.const N'
\* is Int32(N) exactly when N is a signed decimal integer of
\* -2^31 .. 2^31 - 1 and is rejected, not wrapped or truncated, outside of
\* it; 'i64.const N' is Int64(N) exactly when N is of -2^63 .. 2^63 - 1;
\* the variant of a value returned is the one of the type tag.
C22_ConstByTypeTag ==
    op = "parse_const" =>
        /\ ret.kind = "Ok" => ret.value.type = TagType(arg.tag)
        /\ \A s \in IntegerLiterals :
            arg.literal = s.literal =>
                /\ arg.tag = <<"i", "3", "2">> =>
                    IF s.int32 # <<>> THEN ret = IOk(<<>>, Int32(s.int32[1]))
                    ELSE ret.kind = "Error"
                /\ arg.tag = <<"i", "6", "4">> =>
                    IF s.int64 # <<>> THEN ret = IOk(<<>>, Int64(s.int64[1]))
                    ELSE ret.kind = "Error"

C22_Witness ==
    /\ op = "parse_const"
    /\ arg.text = <<"i", "3", "2", ".", "c", "o", "n", "s", "t", " ", "2", "1", "4", "7", "4", "8", "3", "6", "4", "8">>
    /\ ret.kind = "Error"

\* the bits of v from bit 7k - 1 upwards are all equal: after k groups the
\* rest of v is the sign of the k-th group's bit 6
OnlySignAfter(v, k) == \A j \in 7 * k - 1 .. I64_BITS - 1 : v[j] = v[I64_BITS - 1]

\* the first k bytes of bytes as a sequence that ends: the k-th byte with
\* its high bit clear
EndedAt(bytes, k) ==
    [i \in 1 .. k |-> IF i = k THEN bytes[i] % 128 ELSE bytes[i]]

\* C23: the signed encoding is canonical.  Emission stops at the first
\* 7-bit group after which the rest of the value is only sign bits equal to
\* that group's bit 6; no shorter sequence decodes to the value; and no
\* other integer is written as the same bytes.
C23_SignedCanonical ==
    SignedDone =>
        /\ OnlySignAfter(arg, Len(Written))
        /\ \A k \in 1 .. Len(Written) - 1 :
            /\ ~OnlySignAfter(arg, k)
            /\ DecodeSigned(EndedAt(Written, k)).value # arg
        /\ DecodeSigned(Written).value = arg
        /\ \A v \in I64Inputs \ {arg} :
            emit_signed_leb128(VecSink, v).writer.data # Written

C23_Witness ==
    /\ SignedDone
    /\ arg = IntBits(64, I64_BITS)
    /\ Written = <<192, 0>>

\* bit b of the 64-bit value of the state, extended past bit 63 by its
\* sign when it was emitted as signed and by zeros when as unsigned
GroupBit(b) ==
    IF op = "emit_signed_leb128" THEN SignExtBit(arg, I64_BITS, b)
    ELSE ZeroExtBit(arg, I64_BITS, b)

\* C24: in the bytes the signed or the unsigned LEB128 emitter wrote, every
\* byte but the last has its high bit 0x80 set and the last has it clear,
\* and the low 7 bits of the i-th byte are bits 7(i-1) .. 7(i-1)+6 of the
\* value: its 7-bit groups, the least significant first.
C24_GroupsAndContinuation ==
    (SignedDone \/ UnsignedDone) =>
        /\ Len(Written) >= 1
        /\ \A i \in 1 .. Len(Written) :
            /\ (Written[i] >= 128) <=> (i < Len(Written))
            /\ \A b \in 0 .. 6 :
                NatBit(Written[i], b) = GroupBit(7 * (i - 1) + b)

C24_Witness ==
    /\ UnsignedDone
    /\ arg = IntBits(9203, I64_BITS)
    /\ Written = <<243, 71>>

\* the names in the context trail of the result
Trail == {ret.errors[i].what : i \in DOMAIN ret.errors}

\* C25: when the closing parenthesis of a clause inside a function is
\* missing, the failure carries a context trail that names every rule that
\* was entered and the closing-parenthesis expectation: "function",
\* "parameter" and "closing parenthesis" for a parameter clause, "function",
\* "local" and "closing parenthesis" for a local clause.
C25_ContextTrail ==
    (/\ op = "parse_function"
     /\ arg.missing = 2
     /\ arg.function.exports = <<>>
     /\ arg.function.parameters \o arg.function.local_variables # <<>>)
        => /\ ret.kind = "Failure"
           /\ {"function", "closing parenthesis"} \subseteq Trail
           /\ arg.function.local_variables = <<>> => "parameter" \in Trail
           /\ arg.function.local_variables # <<>> => "local" \in Trail

\* C26: in a keyword rule, once the opening parenthesis and the keyword have
\* been read, a later mismatch inside the form is a Failure and not an
\* Error: an export form without its string, a func form or an import form
\* that does not go on as it must.
C26_KeywordCommits ==
    /\ (/\ op = "parse_export"
        /\ \/ IsPrefix(<<"(", "e", "x", "p", "o", "r", "t">>, arg)
           \/ IsPrefix(<<"(", " ", "e", "x", "p", "o", "r", "t">>, arg)
        /\ ret.kind # "Ok") => ret.kind = "Failure"
    /\ (/\ op = "parse_function"
        /\ IsPrefix(<<"(", "f", "u", "n", "c">>, arg.text)
        /\ ret.kind # "Ok") => ret.kind = "Failure"
    /\ (/\ op = "parse_function_import"
        /\ ret.kind \notin {"Ok", "Panic"}) => ret.kind = "Failure"


\* the number of bits of v up to its highest set bit
BitLength(v) ==
    IF \A i \in DOMAIN v : v[i] = 0 THEN 0
    ELSE 1 + CHOOSE i \in DOMAIN v : v[i] = 1 /\ \A j \in DOMAIN v : j > i => v[j] = 0

\* C27: on a sink that accepts all writes the signed and the unsigned LEB128
\* loops terminate for every 64-bit value: a call that is inside its loop has
\* written at most 9 bytes and leads to a call that returned Ok; it has then
\* written at least 1 and at most 10 bytes, all of them returned as the
\* count, and the unsigned call exactly max(1, ceil(bitlength(v) / 7)) bytes.
C27_LoopsTerminate ==
    /\ [](writer.growable /\ ret.tag = "Running" =>
            Len(Written) = ret.n /\ ret.n <= 9)
    /\ [](writer.growable /\ (SignedDone \/ UnsignedDone) =>
            /\ Len(Written) = ret.n
            /\ 1 <= ret.n /\ ret.n <= 10)
    /\ [](writer.growable /\ UnsignedDone =>
            Len(Written) = IF BitLength(arg) = 0 THEN 1
                           ELSE (BitLength(arg) + 6) \div 7)
    /\ (writer.growable /\ ret.tag = "Running") ~> (SignedDone \/ UnsignedDone)

\* both loops end their tenth pass: i64::MIN and u64::MAX take ten bytes
C27_Witness ==
    /\ writer.growable
    /\ \/ SignedDone /\ arg = I64Min
       \/ UnsignedDone /\ arg = U64Max
    /\ Len(Written) = 10


\* the 64-bit value that is the same number as the 32-bit value b
SameNumber64(b) == [i \in 0 .. I64_BITS - 1 |-> SignExtBit(b, I32_BITS, i)]

NumericalDone == op = "emit_numerical_value" /\ ret.tag = "Ok"

\* C28: a successful emission of an Int32 writes the bytes that the emission
\* of the Int64 of the same number writes: the signed LEB128 groups of the
\* 32-bit value extended by its sign, at most 5 of them, which decode to
\* that 64-bit number (a negative value stays negative); the operand of an
\* i32 constant is the same bytes.
C28_Int32SignExtended ==
    /\ (NumericalDone /\ arg.type = "Int32") =>
        /\ Written = emit_numerical_value(VecSink, Int64(SameNumber64(arg.bits))).writer.data
        /\ Written = RefSignedLeb128(arg.bits, I32_BITS)
        /\ Len(Written) <= 5
        /\ ret.n = Len(Written)
        /\ DecodeSigned(Written).ok
        /\ DecodeSigned(Written).value = SameNumber64(arg.bits)
        /\ DecodeSigned(Written).value[I64_BITS - 1] = arg.bits[I32_BITS - 1]
    /\ (ConstantDone /\ arg.value.type = "Int32") =>
        /\ SubSeq(Written, 2, Len(Written)) = RefSignedLeb128(arg.value.bits, I32_BITS)
        /\ Len(Written) <= 6

\* i32::MIN is emitted as the five bytes 80 80 80 80 78
C28_Witness ==
    /\ NumericalDone
    /\ arg = Int32(OneHot(I32_BITS - 1, I32_BITS))
    /\ Written = <<128, 128, 128, 128, 120>>


\* the shape of an Opcode node: its variant and what selects its byte,
\* without the value of a constant or the index of a call or a variable
Shape(node) ==
    CASE node.kind \in {"Unreachable", "Call"} -> <<node.kind>>
      [] node.kind = "VariableInstruction" ->
            <<node.kind, node.payload.scope, node.payload.instruction>>
      [] node.kind = "Constant" -> <<node.kind, node.payload.value.type>>
      [] node.kind \in {"Arithmetic", "Comparison"} ->
            <<node.kind, node.payload.type_, node.payload.instr>>

\* C29: when to_opcode returns a byte for a node, another node resolves to
\* that byte exactly when it has the same shape: nodes of different shapes
\* get different bytes, and the value of a constant and the index of a call
\* or of a variable operation do not change the byte.
C29_OpcodeInjective ==
    (op = "to_opcode" /\ ret.tag = "Byte") =>
        \A other \in OpcodeNodes :
            With([r \in {Opcode_to_opcode(other)} |->
                r.tag = "Byte" => (r.n = ret.n <=> Shape(other) = Shape(arg))])

\* a call by name resolves to 0x10, as the call by number does
C29_Witness ==
    /\ op = "to_opcode"
    /\ arg = [kind |-> "Call", payload |-> Identifier("log")]
    /\ ret = Byte(16)
    /\ Opcode_to_opcode([kind |-> "Call", payload |-> Numerical(IntBits(1, I64_BITS))]) = ret


\* the bytes a call writes on an Emitter of its own over an empty Vec
InIsolation(name, a) ==
    CASE name = "emit_byte" -> emit_byte(VecSink, a).writer.data
      [] name = "emit_constant" -> emit_constant(VecSink, a).writer.data
      [] name = "emit_unreachable" -> emit_unreachable(VecSink).writer.data

\* C30: every call on an Emitter leaves the bytes written before it in
\* place, and a call that succeeds grows the sink by exactly the bytes the
\* call writes in isolation, so that the sink holds the bytes of the calls
\* in call order.
C30_AppendOnly ==
    [][op' # "new" =>
        /\ IsPrefix(writer.data, writer'.data)
        /\ base' = Len(writer.data)
        /\ ret'.tag = "Ok" =>
            writer'.data = writer.data \o InIsolation(op', arg')]_vars

\* a constant emitted after two earlier bytes
C30_Witness ==
    /\ op = "emit_constant"
    /\ ret.tag = "Ok"
    /\ base = 2
    /\ writer.data = <<255, 0, 66, 128, 1>>

====
